---- MODULE Spec2Model ----
(***************************************************************************)
(* Verification model of marcuswendt/deep-scrape: the download manager     *)
(* (src/src/downloader.ts), the crawl engine and the domain policy         *)
(* (BrowserCrawler, second half of src/src/index.ts).                      *)
(*                                                                         *)
(* A URL is the record [host, dir, name, ext]; a host is the sequence of   *)
(* the pieces of its name, so that String.includes and the "www." prefix   *)
(* are computed and not looked up.  A file on disk is a path               *)
(* [dir, name, ext, n] (n the numeric suffix appended on a collision)      *)
(* mapped to the id of its content.                                        *)
(***************************************************************************)
EXTENDS Integers, Sequences, FiniteSets, TLC

(* ------------------------------------------------------------------ *)
(* Bounds of the model                                                 *)
(* ------------------------------------------------------------------ *)
MaxTasks == 2
MaxBatchLen == 2
MaxRedirects == 1
Concurrency == 2

(* ------------------------------------------------------------------ *)
(* Program constants                                                   *)
(* ------------------------------------------------------------------ *)
maxRetries == 3
delayMs == 100

(* ------------------------------------------------------------------ *)
(* Hosts and URLs                                                      *)
(* ------------------------------------------------------------------ *)
seedHost == <<"example", ".", "com">>
cdnHost == <<"assets", ".", "example", "cdn", ".", "net">>
adsHost == <<"ads", ".", "example", "-", "tracking", ".", "com">>

MkUrl(h, d, n, e) == [host |-> h, dir |-> d, name |-> n, ext |-> e]

urlA == MkUrl(seedHost, "a", "x", "jpg")
urlB == MkUrl(seedHost, "b", "x", "jpg")
urlC == MkUrl(cdnHost, "", "t", "png")
urlD == MkUrl(adsHost, "", "z", "jpg")

AssetUrls == {urlA, urlB, urlC, urlD}

\* getDomain(url): the host name of the URL
getDomain(url) == url.host

\* getFilenameFromUrl(url): the last segment of the URL's path
getFilenameFromUrl(url) == [name |-> url.name, ext |-> url.ext]

(* ------------------------------------------------------------------ *)
(* File contents                                                       *)
(* ------------------------------------------------------------------ *)
NoDims == [width |-> -1, height |-> -1]

\* no perceptual hash (getVisualHash returns null)
NoVisual == <<>>

\* size in bytes, content hash, pixel dimensions and perceptual hash of the bodies
ContentInfo ==
    [ c1      |-> [size |-> 5, hash |-> "h1", dims |-> [width |-> 4, height |-> 4],
                   visual |-> <<0, 0, 0, 0>>],
      c2      |-> [size |-> 2, hash |-> "h2", dims |-> [width |-> 2, height |-> 1],
                   visual |-> <<0, 0, 1, 1>>],
      c3      |-> [size |-> 3, hash |-> "h3", dims |-> [width |-> 2, height |-> 1],
                   visual |-> <<0, 0, 0, 1>>],
      c4      |-> [size |-> 4, hash |-> "h4", dims |-> [width |-> 2, height |-> 2],
                   visual |-> <<0, 0, 0, 0>>],
      empty   |-> [size |-> 0, hash |-> "h0", dims |-> NoDims, visual |-> NoVisual],
      partial |-> [size |-> 1, hash |-> "hp", dims |-> NoDims, visual |-> NoVisual] ]

\* the body the server sends for a URL when the fetch succeeds
Body(url) == IF url.host = cdnHost THEN "c2" ELSE "c1"

\* getFileHash(filepath)
getFileHash(fs, fp) == ContentInfo[fs[fp]].hash

\* getImageDimensions(filepath): null (NoDims) when the image cannot be read
getImageDimensions(fs, fp) == IF fp \in DOMAIN fs THEN ContentInfo[fs[fp]].dims ELSE NoDims

imageExtensions == {"jpg", "jpeg", "png", "gif", "webp", "avif"}

(* ------------------------------------------------------------------ *)
(* State                                                               *)
(* ------------------------------------------------------------------ *)
VARIABLES
    config,          \* Config of the session
    allowedDomains,  \* CrawlState.allowedDomains
    downloadedUrls,  \* CrawlState.downloadedUrls
    contentHashes,   \* CrawlState.contentHashes
    tasks,           \* the PQueue: every function added, with its position
    files,           \* the files under the output root: path -> content
    files0,          \* the files under the output root when the session started
    dirs,            \* the host directories under the output root
    browser,         \* BrowserCrawler.browser: "open", "closing" (close() awaited), "null"
    shuttingDown,    \* BrowserCrawler.shuttingDown
    visitedUrls,     \* CrawlState.visitedUrls
    stack,           \* the chain of crawlPage calls in progress, the innermost last
    crawl,           \* the outermost crawlPage call: its arguments, and its result
    rendered,        \* the pages a page.goto has loaded
    web,             \* the hrefs of the anchors of each page whose anchors were read
    navCount,        \* how many times page.goto was called for each URL
    pages,           \* the pages crawlPage has open, each named by the depth of its call
    discovery,       \* the call of discoverAllowedDomains: its position and its locals
    dedup,           \* the deduplication pass: its position, its locals, its report
    session          \* downloadAction: its position, the calls of close(), the exit

dlVars == <<config, allowedDomains, downloadedUrls, contentHashes, tasks, files, files0, dirs>>

crawlVars == <<browser, shuttingDown, visitedUrls, stack, crawl, rendered, web, navCount,
              pages, discovery>>

dedupVars == <<dedup, session>>

vars == <<dlVars, crawlVars, dedupVars>>

(* ------------------------------------------------------------------ *)
(* Configurations (downloadAction builds one from the CLI options)     *)
(* ------------------------------------------------------------------ *)
BaseConfig ==
    [ concurrency |-> Concurrency, dryRun |-> FALSE, resume |-> FALSE, skipDuplicates |-> TRUE,
      minWidth |-> 0, minHeight |-> 0, delayMs |-> delayMs, maxRetries |-> maxRetries ]

Configs ==
    { BaseConfig,
      [BaseConfig EXCEPT !.dryRun = TRUE],
      [BaseConfig EXCEPT !.resume = TRUE],
      [BaseConfig EXCEPT !.skipDuplicates = FALSE],
      [BaseConfig EXCEPT !.minWidth = 2, !.minHeight = 2],
      [BaseConfig EXCEPT !.concurrency = 1] }

(* ------------------------------------------------------------------ *)
(* Filesystem helpers                                                  *)
(* ------------------------------------------------------------------ *)
MkPath(domain, filename, n) ==
    [dir |-> domain, name |-> filename.name, ext |-> filename.ext, n |-> n]

Exists(fs, fp) == fp \in DOMAIN fs

WriteFile(fs, fp, c) == [q \in DOMAIN fs \cup {fp} |-> IF q = fp THEN c ELSE fs[q]]

\* fs.unlink(filepath).catch(() => {}): removes the file when it is there
Unlink(fs, fp) == [q \in DOMAIN fs \ {fp} |-> fs[q]]

NoFiles == [q \in {} |-> "empty"]

\* ensureUniqueFilepath(filepath): the first of filepath, filepath_1, filepath_2, ...
\* that does not exist
ensureUniqueFilepath(fs, fp) ==
    LET free == {k \in 0..Cardinality(DOMAIN fs) : ~Exists(fs, [fp EXCEPT !.n = k])}
    IN  [fp EXCEPT !.n = CHOOSE k \in free : \A j \in free : k <= j]

(* ------------------------------------------------------------------ *)
(* Download manager                                                    *)
(* ------------------------------------------------------------------ *)
NoPath == MkPath(<<>>, [name |-> "", ext |-> ""], 0)

NewTask(url) ==
    [ url |-> url, pc |-> "queued", filepath |-> NoPath, retry |-> 0,
      attempts |-> 0, redirects |-> 0, outcome |-> "none" ]

Running(t) == t.pc \notin {"queued", "done"}

NumRunning == Cardinality({i \in DOMAIN tasks : Running(tasks[i])})

\* [...new Set(urls)]: the first occurrence of each URL, in order
RECURSIVE Unique(_)
Unique(s) ==
    IF s = <<>> THEN <<>>
    ELSE LET r == Unique(SubSeq(s, 1, Len(s) - 1))
             x == s[Len(s)]
         IN  IF \E i \in DOMAIN r : r[i] = x THEN r ELSE Append(r, x)

UrlSeqs == UNION {[1..n -> AssetUrls] : n \in 1..MaxBatchLen}

\* downloadAll(urls): one queue.add per distinct URL of the batch
downloadAll(urls) ==
    /\ Len(tasks) + Len(Unique(urls)) <= MaxTasks
    /\ tasks' = tasks \o [i \in DOMAIN Unique(urls) |-> NewTask(Unique(urls)[i])]
    /\ UNCHANGED <<config, allowedDomains, downloadedUrls, contentHashes, files, files0, dirs>>
    /\ UNCHANGED <<crawlVars, dedupVars>>

Finish(t, outcome) == [t EXCEPT !.pc = "done", !.outcome = outcome]

\* state.downloadedUrls.has(url)
alreadyDownloaded(url) == url \in downloadedUrls

\* mutant: the domain filter lets every host through
domainAllowed_any(domain) == TRUE

\* state.allowedDomains.has(domain)
domainAllowed(domain) == domain \in allowedDomains

\* mutant: the URL is not marked before the first await
markDownloaded_forgotten(url) == downloadedUrls

\* state.downloadedUrls.add(url)
markDownloaded(url) == downloadedUrls \cup {url}

\* mutant: the queue starts a function whatever is running
slotFree_always == TRUE

\* the queue has a free slot: fewer than `concurrency` functions are running
slotFree == NumRunning < config.concurrency

\* PQueue starts the next function when fewer than `concurrency` are running;
\* processDownload then runs to its first await (fs.mkdir)
processDownload_begin(i) ==
    /\ i \in DOMAIN tasks
    /\ tasks[i].pc = "queued"
    /\ \A j \in 1..(i - 1) : tasks[j].pc # "queued"
    /\ slotFree
    /\ LET url == tasks[i].url
           domain == getDomain(url)
       IN  IF alreadyDownloaded(url)
           THEN /\ tasks' = [tasks EXCEPT ![i] = Finish(@, "seen")]
                /\ UNCHANGED downloadedUrls
           ELSE IF ~domainAllowed(domain)
           THEN /\ tasks' = [tasks EXCEPT ![i] = Finish(@, "domain")]
                /\ UNCHANGED downloadedUrls
           ELSE /\ downloadedUrls' = markDownloaded(url)
                /\ tasks' = [tasks EXCEPT ![i].pc = "mkdir"]
    /\ UNCHANGED <<config, allowedDomains, contentHashes, files, files0, dirs>>
    /\ UNCHANGED <<crawlVars, dedupVars>>

\* fs.mkdir(domainDir, {recursive: true}) resolves; the destination is computed
processDownload_mkdir(i) ==
    /\ i \in DOMAIN tasks
    /\ tasks[i].pc = "mkdir"
    /\ LET url == tasks[i].url
           domain == getDomain(url)
           filepath == MkPath(domain, getFilenameFromUrl(url), 0)
       IN  /\ dirs' = dirs \cup {domain}
           /\ tasks' = [tasks EXCEPT ![i].filepath = filepath,
                                     ![i].pc = IF config.resume THEN "resume" ELSE "unique"]
    /\ UNCHANGED <<config, allowedDomains, downloadedUrls, contentHashes, files, files0>>
    /\ UNCHANGED <<crawlVars, dedupVars>>

\* resume mode: fs.stat(filepath) resolves or throws
processDownload_resume(i) ==
    /\ i \in DOMAIN tasks
    /\ tasks[i].pc = "resume"
    /\ LET fp == tasks[i].filepath
       IN  IF Exists(files, fp) /\ ContentInfo[files[fp]].size > 0
           THEN tasks' = [tasks EXCEPT ![i] = Finish(@, "exists")]
           ELSE tasks' = [tasks EXCEPT ![i].pc = "unique"]
    /\ UNCHANGED <<config, allowedDomains, downloadedUrls, contentHashes, files, files0, dirs>>
    /\ UNCHANGED <<crawlVars, dedupVars>>

\* ensureUniqueFilepath resolves; dry run stops here, otherwise the first
\* downloadFile call is issued
processDownload_unique(i) ==
    /\ i \in DOMAIN tasks
    /\ tasks[i].pc = "unique"
    /\ LET fp == ensureUniqueFilepath(files, tasks[i].filepath)
       IN  IF config.dryRun
           THEN tasks' = [tasks EXCEPT ![i] = Finish([@ EXCEPT !.filepath = fp], "dryrun")]
           ELSE tasks' = [tasks EXCEPT ![i].filepath = fp, ![i].retry = 0,
                                       ![i].attempts = IF 0 < config.maxRetries THEN 1 ELSE 0,
                                       ![i].pc = IF 0 < config.maxRetries
                                                 THEN "fetching" ELSE "unlinkFailed"]
    /\ UNCHANGED <<config, allowedDomains, downloadedUrls, contentHashes, files, files0, dirs>>
    /\ UNCHANGED <<crawlVars, dedupVars>>

\* what one HTTP exchange of downloadFile can end in
FetchResults == {"error", "partial", "empty", "ok", "redirect"}

\* the check after the dimension filter: logger.success, then the rate-limit delay
Succeed(t) ==
    IF config.delayMs > 0 THEN [t EXCEPT !.pc = "delay", !.outcome = "success"]
    ELSE Finish(t, "success")

\* lines 151-170, entered once the file is known to be kept so far
AfterDuplicateCheck(t) ==
    IF t.filepath.ext \in imageExtensions THEN [t EXCEPT !.pc = "dims"] ELSE Succeed(t)

\* downloadFile(url, filepath) settles one exchange: a 301/302 re-issues the request
\* for the same filepath and the next URL of the redirect chain (a cycle of
\* MaxRedirects + 1 URLs), any other answer resolves the promise, and the retry
\* loop of processDownload goes on from there
downloadFile(i, r) ==
    /\ i \in DOMAIN tasks
    /\ tasks[i].pc = "fetching"
    /\ r \in FetchResults
    /\ LET t == tasks[i]
           fp == t.filepath
           resolved(ok) ==
               IF ok THEN [t EXCEPT !.pc = "stat", !.redirects = 0]
               ELSE IF t.retry + 1 < config.maxRetries
               THEN [t EXCEPT !.retry = @ + 1, !.pc = "backoff", !.redirects = 0]
               ELSE [t EXCEPT !.retry = @ + 1, !.pc = "unlinkFailed", !.redirects = 0]
       IN  CASE r = "redirect" ->
                  /\ tasks' = [tasks EXCEPT ![i].redirects = (@ + 1) % (MaxRedirects + 1)]
                  /\ UNCHANGED files
            [] r = "error" ->
                  /\ tasks' = [tasks EXCEPT ![i] = resolved(FALSE)]
                  /\ UNCHANGED files
            [] r = "partial" ->
                  /\ tasks' = [tasks EXCEPT ![i] = resolved(FALSE)]
                  /\ files' = WriteFile(files, fp, "partial")
            [] r = "empty" ->
                  /\ tasks' = [tasks EXCEPT ![i] = resolved(TRUE)]
                  /\ files' = WriteFile(files, fp, "empty")
            [] r = "ok" ->
                  /\ tasks' = [tasks EXCEPT ![i] = resolved(TRUE)]
                  /\ files' = WriteFile(files, fp, Body(t.url))
    /\ UNCHANGED <<config, allowedDomains, downloadedUrls, contentHashes, files0, dirs>>
    /\ UNCHANGED <<crawlVars, dedupVars>>

\* the back-off timer of a retry fires and downloadFile is called again
processDownload_retry(i) ==
    /\ i \in DOMAIN tasks
    /\ tasks[i].pc = "backoff"
    /\ tasks' = [tasks EXCEPT ![i].pc = "fetching", ![i].attempts = @ + 1]
    /\ UNCHANGED <<config, allowedDomains, downloadedUrls, contentHashes, files, files0, dirs>>
    /\ UNCHANGED <<crawlVars, dedupVars>>

\* an unlink of the destination resolves and processDownload returns:
\* after the last failed attempt, for an empty file, a duplicate, a small image
processDownload_unlink(i) ==
    /\ i \in DOMAIN tasks
    /\ tasks[i].pc \in {"unlinkFailed", "unlinkEmpty", "unlinkDuplicate", "unlinkSmall"}
    /\ files' = Unlink(files, tasks[i].filepath)
    /\ tasks' = [tasks EXCEPT ![i] =
                    Finish(@, CASE @.pc = "unlinkFailed" -> "failed"
                                [] @.pc = "unlinkEmpty" -> "empty"
                                [] @.pc = "unlinkDuplicate" -> "duplicate"
                                [] @.pc = "unlinkSmall" -> "small")]
    /\ UNCHANGED <<config, allowedDomains, downloadedUrls, contentHashes, files0, dirs>>
    /\ UNCHANGED <<crawlVars, dedupVars>>

\* fs.stat(filepath) after a successful fetch resolves or throws
processDownload_stat(i) ==
    /\ i \in DOMAIN tasks
    /\ tasks[i].pc = "stat"
    /\ LET t == tasks[i]
           fp == t.filepath
       IN  tasks' = [tasks EXCEPT ![i] =
               IF ~Exists(files, fp) THEN Finish(t, "notfound")
               ELSE IF ContentInfo[files[fp]].size = 0 THEN [t EXCEPT !.pc = "unlinkEmpty"]
               ELSE IF config.skipDuplicates THEN [t EXCEPT !.pc = "hash"]
               ELSE AfterDuplicateCheck(t)]
    /\ UNCHANGED <<config, allowedDomains, downloadedUrls, contentHashes, files, files0, dirs>>
    /\ UNCHANGED <<crawlVars, dedupVars>>

\* getFileHash(filepath) resolves (or rejects when the file is gone: processDownload
\* then rejects); contentHashes is read and written in the same turn
processDownload_hash(i) ==
    /\ i \in DOMAIN tasks
    /\ tasks[i].pc = "hash"
    /\ LET t == tasks[i]
           fp == t.filepath
       IN  IF ~Exists(files, fp)
           THEN /\ tasks' = [tasks EXCEPT ![i] = Finish(t, "threw")]
                /\ UNCHANGED contentHashes
           ELSE IF getFileHash(files, fp) \in contentHashes
           THEN /\ tasks' = [tasks EXCEPT ![i].pc = "unlinkDuplicate"]
                /\ UNCHANGED contentHashes
           ELSE /\ contentHashes' = contentHashes \cup {getFileHash(files, fp)}
                /\ tasks' = [tasks EXCEPT ![i] = AfterDuplicateCheck(t)]
    /\ UNCHANGED <<config, allowedDomains, downloadedUrls, files, files0, dirs>>
    /\ UNCHANGED <<crawlVars, dedupVars>>

\* mutant: an image is too small only when both axes are below their minimum
tooSmall_bothAxes(dims) ==
    /\ (config.minWidth > 0 /\ dims.width < config.minWidth)
    /\ (config.minHeight > 0 /\ dims.height < config.minHeight)

\* (minWidth > 0 && width < minWidth) || (minHeight > 0 && height < minHeight)
tooSmall(dims) ==
    \/ (config.minWidth > 0 /\ dims.width < config.minWidth)
    \/ (config.minHeight > 0 /\ dims.height < config.minHeight)

\* getImageDimensions(filepath) resolves, with null for an unreadable image
processDownload_dims(i) ==
    /\ i \in DOMAIN tasks
    /\ tasks[i].pc = "dims"
    /\ LET t == tasks[i]
           dimensions == getImageDimensions(files, t.filepath)
       IN  tasks' = [tasks EXCEPT ![i] =
               IF dimensions # NoDims /\ tooSmall(dimensions)
               THEN [t EXCEPT !.pc = "unlinkSmall"]
               ELSE Succeed(t)]
    /\ UNCHANGED <<config, allowedDomains, downloadedUrls, contentHashes, files, files0, dirs>>
    /\ UNCHANGED <<crawlVars, dedupVars>>

\* the rate-limit timer fires and the worker is free again
processDownload_delay(i) ==
    /\ i \in DOMAIN tasks
    /\ tasks[i].pc = "delay"
    /\ tasks' = [tasks EXCEPT ![i].pc = "done"]
    /\ UNCHANGED <<config, allowedDomains, downloadedUrls, contentHashes, files, files0, dirs>>
    /\ UNCHANGED <<crawlVars, dedupVars>>

(* ------------------------------------------------------------------ *)
(* The download phase of a session                                     *)
(* ------------------------------------------------------------------ *)
\* files found under the output root when the session starts
InitialFiles ==
    { NoFiles,
      WriteFile(NoFiles, MkPath(seedHost, getFilenameFromUrl(urlA), 0), "c1") }

\* no crawl in this session's slice: the browser is closed and nothing is on the stack
\* no call of discoverAllowedDomains
NoDiscovery ==
    [state |-> "idle", url |-> MkUrl(<<>>, "", "", ""), dom |-> <<>>, nav |-> "ok",
     allowedDomains |-> {}, result |-> {}, error |-> "none"]

\* what a pass reports: the groups, the number of duplicates, their bytes
NoReport == [groups |-> {}, found |-> 0, freedBytes |-> 0]

\* no deduplication pass (before: the tree as the phase that ran last found it)
NoDedup ==
    [mode |-> "none", pc |-> "idle", dryRun |-> FALSE, pass |-> 0, infos |-> <<>>,
     report |-> NoReport, deleted |-> 0, dry |-> NoReport, before |-> NoFiles]

\* no downloadAction
NoSession == [pc |-> "idle", closes |-> 0, exit |-> "none"]

CrawlIdle ==
    /\ browser = "null"
    /\ shuttingDown = FALSE
    /\ visitedUrls = {}
    /\ stack = <<>>
    /\ crawl = [seed |-> urlA, depth |-> 0, hrefs |-> {}, maxLinks |-> 0, navs |-> {}, downloader |-> FALSE, queued |-> <<>>, state |-> "idle",
                result |-> <<>>]
    /\ rendered = {}
    /\ discovery = NoDiscovery
    /\ dedup = NoDedup
    /\ session = NoSession
    /\ web = <<>>
    /\ navCount = <<>>
    /\ pages = {}

InitDownload ==
    /\ config \in Configs
    /\ allowedDomains = {seedHost, cdnHost}
    /\ downloadedUrls = {}
    /\ contentHashes = {}
    /\ tasks = <<>>
    /\ files \in InitialFiles
    /\ files0 = files
    /\ dirs = {f.dir : f \in DOMAIN files}
    /\ CrawlIdle

NextDownload ==
    \/ \E urls \in UrlSeqs : downloadAll(urls)
    \/ \E i \in 1..MaxTasks : processDownload_begin(i)
    \/ \E i \in 1..MaxTasks : processDownload_mkdir(i)
    \/ \E i \in 1..MaxTasks : processDownload_resume(i)
    \/ \E i \in 1..MaxTasks : processDownload_unique(i)
    \/ \E i \in 1..MaxTasks, r \in FetchResults : downloadFile(i, r)
    \/ \E i \in 1..MaxTasks : processDownload_retry(i)
    \/ \E i \in 1..MaxTasks : processDownload_unlink(i)
    \/ \E i \in 1..MaxTasks : processDownload_stat(i)
    \/ \E i \in 1..MaxTasks : processDownload_hash(i)
    \/ \E i \in 1..MaxTasks : processDownload_dims(i)
    \/ \E i \in 1..MaxTasks : processDownload_delay(i)

SpecDownload == InitDownload /\ [][NextDownload]_vars

(* ------------------------------------------------------------------ *)
(* Claims about the download manager                                   *)
(* ------------------------------------------------------------------ *)
\* a submission that went past both early returns of processDownload
PassedCheck(t) == t.pc # "queued" /\ t.outcome \notin {"seen", "domain"}

Quiescent == tasks # <<>> /\ \A i \in DOMAIN tasks : tasks[i].pc = "done"

Succeeded(i) == tasks[i].pc = "done" /\ tasks[i].outcome = "success"

\* C1: however often one asset URL is submitted, at most one submission passes the
\* downloadedUrls check and runs the fetch pipeline, and at most one file of that
\* URL is on disk.
C1_OneSubmissionPerUrl ==
    \A u \in AssetUrls :
        LET passed == {i \in DOMAIN tasks : tasks[i].url = u /\ PassedCheck(tasks[i])}
        IN  /\ Cardinality(passed) <= 1
            /\ Cardinality({tasks[i].filepath : i \in passed} \cap DOMAIN files) <= 1

C1_Witness ==
    \E i, j \in DOMAIN tasks :
        /\ i # j
        /\ tasks[i].url = tasks[j].url
        /\ Succeeded(i)
        /\ tasks[j].pc = "done" /\ tasks[j].outcome = "seen"

\* C2: processing a URL whose host is not in allowedDomains issues no fetch and
\* creates no file and no directory under the output root.
C2_DisallowedNeverFetched ==
    /\ \A i \in DOMAIN tasks :
          getDomain(tasks[i].url) \notin allowedDomains =>
              /\ tasks[i].attempts = 0
              /\ tasks[i].pc \in {"queued", "done"}
              /\ tasks[i].pc = "done" => tasks[i].outcome = "domain"
    /\ \A h \in dirs : h \in allowedDomains
    /\ \A fp \in DOMAIN files : fp.dir \in allowedDomains

C2_Witness ==
    \E i, j \in DOMAIN tasks :
        /\ getDomain(tasks[i].url) \notin allowedDomains
        /\ tasks[i].pc = "done"
        /\ Succeeded(j)

\* C3 (as claimed): once every submission has settled, each successful one has left
\* exactly one file (its own destination, shared with no other success) and nothing
\* else has been added under the output root.
C3_OneFilePerSuccess ==
    Quiescent =>
        /\ \A i \in DOMAIN tasks : Succeeded(i) => Exists(files, tasks[i].filepath)
        /\ \A i, j \in DOMAIN tasks :
              Succeeded(i) /\ Succeeded(j) /\ i # j => tasks[i].filepath # tasks[j].filepath
        /\ \A fp \in DOMAIN files \ DOMAIN files0 :
              \E i \in DOMAIN tasks : Succeeded(i) /\ tasks[i].filepath = fp

\* C10 (as claimed): a download whose every attempt fails has been fetched once
\* and then retried maxRetries times.
C10_RetriesAfterFirstAttempt ==
    \A i \in DOMAIN tasks :
        tasks[i].outcome = "failed" => tasks[i].attempts = 1 + config.maxRetries

\* C11 (as claimed): a URL whose every attempt failed is done with the failure
\* reported, and no processing of the batch rejects (downloadAll resolves).
C11_FailureNotFatal ==
    \A i \in DOMAIN tasks :
        tasks[i].outcome = "failed" =>
            /\ tasks[i].pc = "done"
            /\ \A j \in DOMAIN tasks : tasks[j].outcome # "threw"

\* C12 (as claimed, download side): in dry-run mode no fetch is issued and the
\* files and the directories under the output root stay what they were.
C12_DryRunLeavesDiskUntouched ==
    config.dryRun =>
        /\ \A i \in DOMAIN tasks : tasks[i].attempts = 0
        /\ files = files0
        /\ dirs = {fp.dir : fp \in DOMAIN files0}

\* the files the download phase has added under the output root
Kept == DOMAIN files \ DOMAIN files0

\* C23 (as claimed): with skipDuplicates on, once every submission has settled no
\* two files the phase has kept have the same content hash, and of the content of
\* every successful download exactly one file is kept.
C23_OneFilePerContentHash ==
    config.skipDuplicates /\ Quiescent =>
        /\ \A fp, fq \in Kept : fp # fq => getFileHash(files, fp) # getFileHash(files, fq)
        /\ \A i \in DOMAIN tasks :
              Succeeded(i) =>
                  Cardinality({fp \in Kept : getFileHash(files, fp)
                                                = ContentInfo[Body(tasks[i].url)].hash}) = 1

\* dimensions that are at least the minimum configured on each axis
MeetsMinimum(dims) ==
    /\ config.minWidth > 0 => dims.width >= config.minWidth
    /\ config.minHeight > 0 => dims.height >= config.minHeight

\* C24: once every submission has settled, every image file the phase has kept
\* whose dimensions can be read has at least the configured minimum width and
\* height, and no download of an image below a minimum is a success or has left
\* its file.
C24_KeptImagesMeetMinimum ==
    Quiescent =>
        /\ \A fp \in Kept :
              fp.ext \in imageExtensions /\ getImageDimensions(files, fp) # NoDims =>
                  MeetsMinimum(getImageDimensions(files, fp))
        /\ \A i \in DOMAIN tasks :
              /\ tasks[i].url.ext \in imageExtensions
              /\ ~MeetsMinimum(ContentInfo[Body(tasks[i].url)].dims)
              => ~Succeeded(i) /\ ~Exists(files, tasks[i].filepath)

\* an image of 2x1 was fetched under a minimum of 2x2 and deleted as too small,
\* next to an image of 4x4 that was kept
C24_Witness ==
    /\ Quiescent
    /\ config.minHeight > 0
    /\ \E i, j \in DOMAIN tasks :
          /\ tasks[i].outcome = "small" /\ tasks[i].attempts >= 1
          /\ ~Exists(files, tasks[i].filepath)
          /\ Succeeded(j) /\ Exists(files, tasks[j].filepath)

\* the URLs whose pipeline has been started and has not ended, under a
\* filesystem, network or timer wait
InProgress == {i \in DOMAIN tasks : tasks[i].pc \notin {"queued", "done"}}

\* the pipeline of URL i is started in this step
Starts(i) ==
    i \in DOMAIN tasks /\ tasks[i].pc = "queued" /\ tasks'[i].pc # "queued"

\* C18: the pipelines in progress never outnumber config.concurrency, and a
\* pipeline is started only when fewer than config.concurrency are in progress,
\* so that each worker ends the pipeline it runs, the retry loop and the
\* rate-limit delay included, before it takes the next queued URL.
C18_BoundedWorkers ==
    [][/\ \A i \in 1..MaxTasks : Starts(i) => Cardinality(InProgress) < config.concurrency
       /\ Cardinality(InProgress') <= config'.concurrency]_vars

\* every worker is in the retry loop of a pipeline, a fetch failed and the next
\* to come, while a queued URL waits
C18_Witness ==
    /\ Cardinality(InProgress) = config.concurrency
    /\ \A i \in InProgress : tasks[i].pc = "backoff"
    /\ \E i \in DOMAIN tasks : tasks[i].pc = "queued"

(* ------------------------------------------------------------------ *)
(* Crawl engine: hrefs, normalisation, link extraction                 *)
(* ------------------------------------------------------------------ *)
wwwHost(h) == <<"www", ".">> \o h

\* the page of a host with the path /n
MkPage(h, n) == MkUrl(h, "", ToString(n), "")

\* an attribute value as found in the DOM: what it starts with, and the rest
Href(pre, h, d, n, e) == [pre |-> pre, host |-> h, dir |-> d, name |-> n, ext |-> e]

PageHref(pre, h, n) == Href(pre, h, "", ToString(n), "")

\* String.startsWith on an href
StartsWith(link, prefix) == link.pre = prefix \/ (prefix = "#" /\ link.pre = "#/")

\* link.slice(1) of an href that starts with "#/"
Slice1(link) == [link EXCEPT !.pre = "/"]

Null == MkUrl(<<>>, "", "", "")

\* normalizeUrl(raw, base): an absolute or protocol-relative URL as it is, a path
\* on the host of the base, null for anything that is no URL
normalizeUrl(link, base) ==
    CASE link.pre \in {"https://", "//"} -> MkUrl(link.host, link.dir, link.name, link.ext)
      [] link.pre = "/" -> MkUrl(base.host, link.dir, link.name, link.ext)
      [] OTHER -> Null

MEDIA_EXTENSIONS ==
    [ images |-> {"jpg", "jpeg", "png", "gif", "webp", "svg", "avif", "ico"},
      videos |-> {"mp4", "webm", "mov", "avi", "mkv"} ]

\* isMediaUrl(url): by the extension of the path
isMediaUrl(url) == url.ext \in MEDIA_EXTENSIONS.images \cup MEDIA_EXTENSIONS.videos

\* links are followed onto every host
sameSite_any(domain, sourceDomain) == TRUE

\* a link is followed when its host is the source domain or its www. variant
sameSite(domain, sourceDomain) == domain = sourceDomain \/ domain = wwwHost(sourceDomain)

\* the loop of extractPageLinks over the hrefs of the page's anchors
RECURSIVE pageLinks(_, _, _)
pageLinks(links, baseUrl, sourceDomain) ==
    IF links = <<>> THEN <<>>
    ELSE LET rest == pageLinks(SubSeq(links, 1, Len(links) - 1), baseUrl, sourceDomain)
             raw == links[Len(links)]
         IN  IF StartsWith(raw, "javascript:") \/ StartsWith(raw, "mailto:") THEN rest
             ELSE IF ~StartsWith(raw, "#/") /\ StartsWith(raw, "#") THEN rest
             ELSE LET link == IF StartsWith(raw, "#/") THEN Slice1(raw) ELSE raw
                      normalized == normalizeUrl(link, baseUrl)
                  IN  IF normalized = Null THEN rest
                      ELSE IF sameSite(getDomain(normalized), sourceDomain)
                      THEN Append(rest, normalized)
                      ELSE rest

\* extractPageLinks(page, baseUrl, sourceDomain)
extractPageLinks(links, baseUrl, sourceDomain) == Unique(pageLinks(links, baseUrl, sourceDomain))

\* the loop of extractMediaUrls over the URLs found in the DOM
RECURSIVE mediaLinks(_, _)
mediaLinks(urls, baseUrl) ==
    IF urls = <<>> THEN <<>>
    ELSE LET rest == mediaLinks(SubSeq(urls, 1, Len(urls) - 1), baseUrl)
             normalized == normalizeUrl(urls[Len(urls)], baseUrl)
         IN  IF normalized # Null /\ isMediaUrl(normalized) THEN Append(rest, normalized)
             ELSE rest

\* extractMediaUrls(page, baseUrl)
extractMediaUrls(urls, baseUrl) == Unique(mediaLinks(urls, baseUrl))

(* ------------------------------------------------------------------ *)
(* Crawl engine: BrowserCrawler.crawlPage and close                    *)
(* ------------------------------------------------------------------ *)
NumPages == 4
NumLoopPages == 3
MaxLinks == 2
MaxFilterLinks == 3
MaxDepth == 2
MaxFilterDepth == 1

\* what every rendered page carries in its src/href attributes besides its anchors
PageMedia ==
    << Href("https://", cdnHost, "", "t", "png"),
       Href("/", <<>>, "a", "x", "jpg"),
       Href("/", <<>>, "", "about", ""),
       Href("https://", cdnHost, "", "t", "png") >>

\* hrefs of a site whose anchors are paths to its own pages
GraphHrefs == {PageHref("/", <<>>, n) : n \in 0..(NumPages - 1)}

\* hrefs of a smaller site of the same kind
LoopHrefs == {PageHref("/", <<>>, n) : n \in 0..(NumLoopPages - 1)}

\* hrefs of a site whose anchors are of every kind extractPageLinks tells apart
FilterHrefs ==
    { PageHref("/", <<>>, 1),
      PageHref("https://", wwwHost(seedHost), 1),
      PageHref("https://", cdnHost, 1),
      PageHref("javascript:", <<>>, 0),
      PageHref("mailto:", <<>>, 0),
      PageHref("#", <<>>, 0),
      PageHref("#/", <<>>, 2),
      PageHref("https://[", <<>>, 0) }

AnchorLists(hrefs, maxLinks) == UNION {[1..n -> hrefs] : n \in 0..maxLinks}

sourceDomain == getDomain(crawl.seed)

Frame(url, depth) ==
    [url |-> url, depth |-> depth, pc |-> "newPage", nav |-> "ok",
     links |-> <<>>, i |-> 1, mediaUrls |-> <<>>]

Top == stack[Len(stack)]

SetTop(f) == [stack EXCEPT ![Len(stack)] = f]

\* line 438: the call returns at once
shouldSkip(url, depth) == shuttingDown \/ depth < 0 \/ url \in visitedUrls

\* the depth is not counted down along a link
childDepth_same(depth) == depth

\* the depth a link of a page crawled with `depth` is crawled with
childDepth(depth) == depth - 1

\* mutant: the URL is not added before the page is opened
markVisited_forgotten(url) == visitedUrls

\* state.visitedUrls.add(url)
markVisited(url) == visitedUrls \cup {url}

\* crawlPage up to its first await: "skip" (line 439), "closed" (line 446, the URL
\* is marked) or "open" (the URL is marked and browser.newPage() is awaited)
crawlPage_sync(url, depth) ==
    IF shouldSkip(url, depth) THEN "skip"
    ELSE IF browser = "null" \/ shuttingDown THEN "closed"
    ELSE "open"

\* mutant: the caller keeps the list of the call that returned in place of its own
Returned_lost(result) ==
    IF Len(stack) = 1
    THEN /\ stack' = <<>>
         /\ crawl' = [crawl EXCEPT !.state = "returned", !.result = result]
    ELSE /\ stack' = [SubSeq(stack, 1, Len(stack) - 1) EXCEPT ![Len(stack) - 1] =
                        [@ EXCEPT !.mediaUrls = result, !.i = @ + 1, !.pc = "loop"]]
         /\ UNCHANGED crawl

\* the stack and the outermost call once the innermost call has returned `result`
Returned(result) ==
    IF Len(stack) = 1
    THEN /\ stack' = <<>>
         /\ crawl' = [crawl EXCEPT !.state = "returned", !.result = result]
    ELSE /\ stack' = [SubSeq(stack, 1, Len(stack) - 1) EXCEPT ![Len(stack) - 1] =
                        [@ EXCEPT !.mediaUrls = @ \o result, !.i = @ + 1, !.pc = "loop"]]
         /\ UNCHANGED crawl

\* downloadAction calls crawlPage(url, config.depth, sourceDomain, state, config)
crawlPage_call ==
    /\ crawl.state = "ready"
    /\ LET r == crawlPage_sync(crawl.seed, crawl.depth)
       IN  /\ visitedUrls' = IF r = "skip" THEN visitedUrls ELSE markVisited(crawl.seed)
           /\ IF r = "open"
              THEN /\ stack' = <<Frame(crawl.seed, crawl.depth)>>
                   /\ crawl' = [crawl EXCEPT !.state = "running"]
              ELSE /\ stack' = <<>>
                   /\ crawl' = [crawl EXCEPT !.state = "returned"]
    /\ UNCHANGED <<browser, shuttingDown, rendered, web, navCount, pages>>
    /\ UNCHANGED <<dlVars, discovery, dedupVars>>

\* page = await this.browser.newPage(): the browser has one page more
openPage(k) == pages \cup {k}

\* browser.newPage() resolves, and page.goto(url) is called, or it throws because
\* the browser was closed, and the call returns []
crawlPage_newPage(ok, nav) ==
    /\ stack # <<>>
    /\ Top.pc = "newPage"
    /\ ok = TRUE => browser # "null"
    /\ ok = FALSE => browser # "open"
    /\ pages' = IF ok THEN openPage(Len(stack)) ELSE pages
    /\ IF ok
       THEN /\ stack' = SetTop([Top EXCEPT !.pc = "goto", !.nav = nav])
            /\ navCount' = [u \in DOMAIN navCount \cup {Top.url} |->
                              IF u = Top.url
                              THEN (IF u \in DOMAIN navCount THEN navCount[u] ELSE 0) + 1
                              ELSE navCount[u]]
            /\ UNCHANGED crawl
       ELSE /\ nav = "ok"
            /\ Returned(<<>>)
            /\ UNCHANGED navCount
    /\ UNCHANGED <<browser, shuttingDown, visitedUrls, rendered, web>>
    /\ UNCHANGED <<dlVars, discovery, dedupVars>>

\* page.goto without its timeout option: a page that never answers leaves the
\* promise pending
gotoOutcome_noTimeout(nav) ==
    CASE nav = "ok" -> "loaded"
      [] nav = "hang" -> "pending"
      [] OTHER -> "rejected"

\* page.goto(url, {waitUntil, timeout: config.timeout * 1000}): the page loads, or
\* the promise is rejected, at the latest when the timeout expires
gotoOutcome(nav) == IF nav = "ok" THEN "loaded" ELSE "rejected"

\* page.goto settles: the page is loaded, or the navigation fails (timeout,
\* unreachable, browser closed) and the catch returns mediaUrls
crawlPage_goto ==
    /\ stack # <<>>
    /\ Top.pc = "goto"
    /\ IF gotoOutcome(Top.nav) = "loaded" /\ browser # "null"
       THEN /\ rendered' = rendered \cup {Top.url}
            /\ stack' = SetTop([Top EXCEPT !.pc = "media"])
       ELSE /\ gotoOutcome(Top.nav) = "rejected" \/ browser = "null"
            /\ stack' = SetTop([Top EXCEPT !.pc = "close", !.nav = "fail"])
            /\ UNCHANGED rendered
    /\ UNCHANGED <<browser, shuttingDown, visitedUrls, crawl, web, navCount, pages>>
    /\ UNCHANGED <<dlVars, discovery, dedupVars>>

\* the methods class Downloader declares
DownloaderMethods == {"downloadFile", "processDownload", "downloadAll", "waitForCompletion"}

\* extractMediaUrls resolves ([] when page.evaluate threw). Without a downloader
\* the URLs are pushed on mediaUrls; with one, downloader.queueUrls(extractedMedia)
\* is called, which hands them over or, the method missing, throws a TypeError
\* that the catch of crawlPage takes: the call returns mediaUrls. With depth > 0
\* extractPageLinks is awaited next
crawlPage_media ==
    /\ stack # <<>>
    /\ Top.pc = "media"
    /\ LET extractedMedia == IF browser # "null" THEN extractMediaUrls(PageMedia, Top.url)
                             ELSE <<>>
           next == IF Top.depth > 0 THEN "links" ELSE "close"
       IN  IF ~crawl.downloader
           THEN /\ stack' = SetTop([Top EXCEPT !.mediaUrls = @ \o extractedMedia, !.pc = next])
                /\ UNCHANGED crawl
           ELSE IF "queueUrls" \in DownloaderMethods
           THEN /\ stack' = SetTop([Top EXCEPT !.pc = next])
                /\ crawl' = [crawl EXCEPT !.queued = @ \o extractedMedia]
           ELSE /\ stack' = SetTop([Top EXCEPT !.pc = "close"])
                /\ UNCHANGED crawl
    /\ UNCHANGED <<browser, shuttingDown, visitedUrls, rendered, web, navCount, pages>>
    /\ UNCHANGED <<dlVars, discovery, dedupVars>>

\* extractPageLinks resolves: page.evaluate returned the hrefs of the anchors, or
\* threw and the result is []
crawlPage_links(anchors) ==
    /\ stack # <<>>
    /\ Top.pc = "links"
    /\ IF browser # "null"
       THEN /\ Top.url \in DOMAIN web => anchors = web[Top.url]
            /\ web' = [u \in DOMAIN web \cup {Top.url} |->
                         IF u = Top.url THEN anchors ELSE web[u]]
            /\ stack' = SetTop([Top EXCEPT
                            !.links = extractPageLinks(anchors, Top.url, sourceDomain),
                            !.i = 1, !.pc = "loop"])
       ELSE /\ anchors = <<>>
            /\ stack' = SetTop([Top EXCEPT !.links = <<>>, !.i = 1, !.pc = "loop"])
            /\ UNCHANGED web
    /\ UNCHANGED <<browser, shuttingDown, visitedUrls, crawl, rendered, navCount, pages>>
    /\ UNCHANGED <<dlVars, discovery, dedupVars>>

\* the anchors of a page that was loaded and whose anchors the crawl never read:
\* the site has them all the same
site_page(url, anchors) ==
    /\ crawl.state = "returned"
    /\ url \in rendered \ DOMAIN web
    /\ web' = [u \in DOMAIN web \cup {url} |-> IF u = url THEN anchors ELSE web[u]]
    /\ UNCHANGED <<browser, shuttingDown, visitedUrls, stack, crawl, rendered, navCount, pages>>
    /\ UNCHANGED <<dlVars, discovery, dedupVars>>

\* mutant: the links are taken from the last to the first
nextLink_reversed(f) == f.links[Len(f.links) - f.i + 1]

\* `for (const link of links)`: the link of the turn the loop is at
nextLink(f) == f.links[f.i]

\* one turn of `for (const link of links)`: the shutdown check, then the call of
\* crawlPage(link, depth - 1, ...) up to its first await
crawlPage_loop ==
    /\ stack # <<>>
    /\ Top.pc = "loop"
    /\ IF Top.i > Len(Top.links) \/ shuttingDown
       THEN /\ stack' = SetTop([Top EXCEPT !.pc = "close"])
            /\ UNCHANGED visitedUrls
       ELSE LET link == nextLink(Top)
                r == crawlPage_sync(link, childDepth(Top.depth))
            IN  /\ visitedUrls' = IF r = "skip" THEN visitedUrls ELSE markVisited(link)
                /\ IF r = "open"
                   THEN stack' = Append(SetTop([Top EXCEPT !.pc = "await"]),
                                        Frame(link, childDepth(Top.depth)))
                   ELSE stack' = SetTop([Top EXCEPT !.i = @ + 1])
    /\ UNCHANGED <<browser, shuttingDown, crawl, rendered, web, navCount, pages>>
    /\ UNCHANGED <<dlVars, discovery, dedupVars>>

\* mutant: the page of the call is left open
closePage_leaked(k) == pages

\* finally: await page.close().catch(() => {})
closePage(k) == pages \ {k}

\* finally: page.close() resolves and the call returns mediaUrls to its caller
crawlPage_close ==
    /\ stack # <<>>
    /\ Top.pc = "close"
    /\ Returned(Top.mediaUrls)
    /\ pages' = closePage(Len(stack))
    /\ UNCHANGED <<browser, shuttingDown, visitedUrls, rendered, web, navCount>>
    /\ UNCHANGED <<dlVars, discovery, dedupVars>>

\* close(): the flag is set and browser.close() is awaited
close_begin ==
    /\ ~shuttingDown
    /\ shuttingDown' = TRUE
    /\ browser' = IF browser = "open" THEN "closing" ELSE browser
    /\ UNCHANGED <<visitedUrls, stack, crawl, rendered, web, navCount, pages>>
    /\ UNCHANGED <<dlVars, discovery, dedupVars>>

\* close(): browser.close() has settled and has closed every page,
\* this.browser = null
close_end ==
    /\ browser = "closing"
    /\ browser' = "null"
    /\ pages' = {}
    /\ UNCHANGED <<shuttingDown, visitedUrls, stack, crawl, rendered, web, navCount>>
    /\ UNCHANGED <<dlVars, discovery, dedupVars>>

\* the state of a session whose downloader has not been given any URL
DownloadIdle ==
    /\ config = BaseConfig
    /\ allowedDomains = {seedHost, cdnHost}
    /\ downloadedUrls = {}
    /\ contentHashes = {}
    /\ tasks = <<>>
    /\ files = NoFiles
    /\ files0 = NoFiles
    /\ dirs = {}

CrawlStart(hrefs, maxLinks, navs, depths) ==
    /\ browser = "open"
    /\ shuttingDown = FALSE
    /\ visitedUrls = {}
    /\ stack = <<>>
    /\ crawl \in [seed : {MkPage(seedHost, 0)}, depth : depths, hrefs : {hrefs}, maxLinks : {maxLinks},
                  navs : {navs}, downloader : {FALSE}, queued : {<<>>},
                  state : {"ready"}, result : {<<>>}]
    /\ rendered = {}
    /\ discovery = NoDiscovery
    /\ dedup = NoDedup
    /\ session = NoSession
    /\ web = <<>>
    /\ navCount = <<>>
    /\ pages = {}
    /\ DownloadIdle

\* a crawl of a site of NumPages pages that all load, with no shutdown
InitCrawl == CrawlStart(GraphHrefs, MaxLinks, {"ok"}, 0..MaxDepth)

\* a crawl during which navigations may fail and close() may be called
InitSession ==
    \/ CrawlStart(GraphHrefs, MaxLinks, {"ok", "fail", "hang"}, 0..MaxDepth)
    \/ CrawlStart(FilterHrefs, MaxFilterLinks, {"ok", "fail", "hang"}, 0..MaxFilterDepth)

CrawlStep ==
    \/ crawlPage_call
    \/ \E ok \in BOOLEAN, nav \in crawl.navs : crawlPage_newPage(ok, nav)
    \/ crawlPage_goto
    \/ crawlPage_media
    \/ \E anchors \in AnchorLists(crawl.hrefs, crawl.maxLinks) : crawlPage_links(anchors)
    \/ crawlPage_loop
    \/ crawlPage_close

NextCrawl ==
    \/ CrawlStep
    \/ \E url \in rendered, anchors \in AnchorLists(crawl.hrefs, crawl.maxLinks) : site_page(url, anchors)

NextSession ==
    \/ CrawlStep
    \/ close_begin
    \/ close_end

SpecCrawl == InitCrawl /\ [][NextCrawl]_vars

SpecSession == InitSession /\ [][NextSession]_vars

\* a crawl of a site of NumLoopPages pages, some of which never answer, during
\* which close() may be called
InitLoops == CrawlStart(LoopHrefs, MaxLinks, {"ok", "hang"}, 0..MaxDepth)

\* the event loop runs every continuation that is ready: the crawl cannot stay
\* forever at a step that can be taken
FairCrawl == InitLoops /\ [][NextSession]_vars /\ WF_vars(CrawlStep)

(* ------------------------------------------------------------------ *)
(* Claims: crawl engine                                                *)
(* ------------------------------------------------------------------ *)
Range(seq) == {seq[k] : k \in DOMAIN seq}

\* the pages the anchors of a page lead to, as far as the anchors are known
Links(url) ==
    IF url \in DOMAIN web THEN Range(extractPageLinks(web[url], url, sourceDomain)) ELSE {}

\* the pages at most d links away from the seed
RECURSIVE Reach(_)
Reach(d) ==
    IF d = 0 THEN {crawl.seed}
    ELSE LET near == Reach(d - 1) IN near \cup UNION {Links(u) : u \in near}

\* C4: no page further than crawl.depth links from the seed is navigated, and no
\* page is navigated twice
C4_DepthBoundNoRevisit ==
    \A url \in DOMAIN navCount : url \in Reach(crawl.depth) /\ navCount[url] <= 1

\* the crawl of a site with a cycle back to the seed, a page linked from two pages
\* and a page beyond the depth has returned
C4_Witness ==
    /\ crawl.state = "returned"
    /\ crawl.depth >= 1
    /\ \E u \in DOMAIN web : u # crawl.seed /\ crawl.seed \in Links(u)
    /\ \E u, v \in DOMAIN web : u # v /\ Links(u) \cap Links(v) \cap rendered # {}
    /\ \E u \in DOMAIN web : Links(u) \ Reach(crawl.depth) # {}

\* C5: when every page loads and nothing shuts the crawl down, the pages visited
\* at the return of the crawl are the pages at most crawl.depth links from the seed
C5_VisitsAllWithinDepth ==
    (crawl.state = "returned" /\ rendered \subseteq DOMAIN web)
        => visitedUrls = Reach(crawl.depth)

\* C6: the crawl returns
C6_CrawlReturns == <>(crawl.state = "returned")

\* the crawl of a site with a page linking to itself and a cycle through the seed,
\* one of whose pages never answered, has returned
C6_Witness ==
    /\ crawl.state = "returned"
    /\ crawl.depth = MaxDepth
    /\ \E u \in DOMAIN web : u \in Links(u)
    /\ \E u \in DOMAIN web : u # crawl.seed /\ crawl.seed \in Links(u)
    /\ \E u \in DOMAIN navCount : u \notin rendered

\* C7: a page visited other than the seed is on the host of the seed or on its
\* www. variant
C7_PagesStayOnSite ==
    \A url \in (visitedUrls \cup DOMAIN navCount) \ {crawl.seed} :
        getDomain(url) \in {getDomain(crawl.seed), wwwHost(getDomain(crawl.seed))}

\* the seed page had an anchor to the allowed asset host and an anchor of a kind
\* that is never followed, and a page of the www. host was visited
C7_Witness ==
    /\ crawl.state = "returned"
    /\ cdnHost \in allowedDomains
    /\ crawl.seed \in DOMAIN web
    /\ \E k \in DOMAIN web[crawl.seed] : web[crawl.seed][k].host = cdnHost
    /\ \E u \in DOMAIN web, k \in 1..MaxFilterLinks :
           k \in DOMAIN web[u] /\ web[u][k].pre \in {"javascript:", "mailto:", "#"}
    /\ \E url \in visitedUrls : getDomain(url) = wwwHost(seedHost)

\* page.goto is called in this step: the count of navigations of a URL grows
NavigationIssued == navCount' # navCount

\* C19: no page.goto is called while shuttingDown is set, however close() is
\* interleaved with a running crawl.
C19_NoNavigationAfterShutdown ==
    [][NavigationIssued => ~shuttingDown]_vars

(* ------------------------------------------------------------------ *)
(* Domain discovery: BrowserCrawler.discoverAllowedDomains             *)
(* ------------------------------------------------------------------ *)
MaxDomUrls == 3

staticHost == <<"static", ".", "example", ".", "org">>

\* values of the src and href attributes of a seed page
DomUrls ==
    { Href("/", <<>>, "a", "x", "jpg"),
      Href("https://", cdnHost, "", "t", "png"),
      Href("https://", cdnHost, "", "docs", ""),
      Href("https://", adsHost, "", "z", "jpg"),
      Href("//", staticHost, "", "v", "mp4"),
      Href("https://[", <<>>, "", "y", "png") }

DomLists == UNION {[1..n -> DomUrls] : n \in 0..MaxDomUrls}

\* String.includes on a host name
Includes(domain, word) == \E k \in DOMAIN domain : domain[k] = word

\* every host observed is kept
keepDomain_all(domain, srcDomain) == TRUE

\* the condition of the filter loop
keepDomain(domain, srcDomain) ==
    \/ domain = srcDomain
    \/ Includes(domain, "cdn")
    \/ Includes(domain, "cloudinary")
    \/ Includes(domain, "imgix")
    \/ Includes(domain, "images")
    \/ Includes(domain, "static")
    \/ Includes(domain, "squarespace")

\* the loop over allUrls: the hosts of the media URLs
RECURSIVE mediaDomains(_, _)
mediaDomains(allUrls, url) ==
    IF allUrls = <<>> THEN {}
    ELSE LET rest == mediaDomains(SubSeq(allUrls, 1, Len(allUrls) - 1), url)
             normalized == normalizeUrl(allUrls[Len(allUrls)], url)
         IN  IF normalized # Null /\ isMediaUrl(normalized) /\ getDomain(normalized) # <<>>
             THEN rest \cup {getDomain(normalized)}
             ELSE rest

\* filteredDomains
filterDomains(domains, srcDomain) ==
    {srcDomain} \cup {domain \in domains : keepDomain(domain, srcDomain)}

\* downloadAction calls discoverAllowedDomains(url): the seed host is added, and
\* the call throws without a browser or awaits browser.newPage()
discover_call ==
    /\ discovery.state = "ready"
    /\ discovery' = [discovery EXCEPT
            !.allowedDomains = {getDomain(discovery.url)},
            !.state = IF browser = "null" THEN "raised" ELSE "newPage",
            !.error = IF browser = "null" THEN "notInitialized" ELSE "none"]
    /\ UNCHANGED <<browser, shuttingDown, visitedUrls, stack, crawl, rendered, web, navCount, pages>>
    /\ UNCHANGED <<dlVars, dedupVars>>

\* browser.newPage() resolves, or rejects, outside the try
discover_newPage(ok) ==
    /\ discovery.state = "newPage"
    /\ ok = TRUE => browser # "null"
    /\ ok = FALSE => browser # "open"
    /\ discovery' = IF ok THEN [discovery EXCEPT !.state = "goto"]
                    ELSE [discovery EXCEPT !.state = "raised", !.error = "newPage"]
    /\ UNCHANGED <<browser, shuttingDown, visitedUrls, stack, crawl, rendered, web, navCount, pages>>
    /\ UNCHANGED <<dlVars, dedupVars>>

\* page.goto(url, {timeout: 30000}) settles: the page is loaded, or the catch
\* returns allowedDomains
discover_goto ==
    /\ discovery.state = "goto"
    /\ discovery' =
         IF gotoOutcome(discovery.nav) = "loaded" /\ browser # "null"
         THEN [discovery EXCEPT !.state = "evaluate"]
         ELSE [discovery EXCEPT !.state = "close", !.nav = "fail",
                                !.result = discovery.allowedDomains, !.error = "render"]
    /\ UNCHANGED <<browser, shuttingDown, visitedUrls, stack, crawl, rendered, web, navCount, pages>>
    /\ UNCHANGED <<dlVars, dedupVars>>

\* page.evaluate settles: the hosts of the media URLs are added and the filtered
\* set is returned, or the catch returns allowedDomains
discover_evaluate ==
    /\ discovery.state = "evaluate"
    /\ discovery' =
         IF browser # "null"
         THEN LET all == discovery.allowedDomains \cup mediaDomains(discovery.dom, discovery.url)
              IN  [discovery EXCEPT !.state = "close", !.allowedDomains = all,
                       !.result = filterDomains(all, getDomain(discovery.url))]
         ELSE [discovery EXCEPT !.state = "close", !.result = discovery.allowedDomains,
                                !.error = "extract"]
    /\ UNCHANGED <<browser, shuttingDown, visitedUrls, stack, crawl, rendered, web, navCount, pages>>
    /\ UNCHANGED <<dlVars, dedupVars>>

\* finally: page.close() resolves; the set returned becomes state.allowedDomains
discover_close ==
    /\ discovery.state = "close"
    /\ discovery' = [discovery EXCEPT !.state = "returned"]
    /\ allowedDomains' = discovery.result
    /\ UNCHANGED <<config, downloadedUrls, contentHashes, tasks, files, files0, dirs>>
    /\ UNCHANGED dedupVars
    /\ UNCHANGED <<browser, shuttingDown, visitedUrls, stack, crawl, rendered, web, navCount, pages>>

\* after init(): discoverAllowedDomains is about to be called on a seed page
InitDiscover ==
    /\ browser = "open"
    /\ shuttingDown = FALSE
    /\ visitedUrls = {}
    /\ stack = <<>>
    /\ crawl = [seed |-> urlA, depth |-> 0, hrefs |-> {}, maxLinks |-> 0, navs |-> {}, downloader |-> FALSE, queued |-> <<>>,
                state |-> "idle", result |-> <<>>]
    /\ rendered = {}
    /\ web = <<>>
    /\ navCount = <<>>
    /\ pages = {}
    /\ discovery \in [state : {"ready"}, url : {MkPage(seedHost, 0)}, dom : DomLists,
                      nav : {"ok", "fail", "hang"}, allowedDomains : {{}}, result : {{}},
                      error : {"none"}]
    /\ dedup = NoDedup
    /\ session = NoSession
    /\ config = BaseConfig
    /\ allowedDomains = {}
    /\ downloadedUrls = {}
    /\ contentHashes = {}
    /\ tasks = <<>>
    /\ files = NoFiles
    /\ files0 = NoFiles
    /\ dirs = {}

NextDiscover ==
    \/ discover_call
    \/ \E ok \in BOOLEAN : discover_newPage(ok)
    \/ discover_goto
    \/ discover_evaluate
    \/ discover_close
    \/ close_begin
    \/ close_end

SpecDiscover == InitDiscover /\ [][NextDiscover]_vars

(* ------------------------------------------------------------------ *)
(* Claims: domain discovery                                            *)
(* ------------------------------------------------------------------ *)
\* the hosts of the media-classified URLs in the src and href attributes read
ObservedMediaHosts ==
    {getDomain(normalizeUrl(discovery.dom[k], discovery.url)) :
        k \in {j \in DOMAIN discovery.dom :
                 isMediaUrl(normalizeUrl(discovery.dom[j], discovery.url))}}

CdnWords == {"cdn", "cloudinary", "imgix", "images", "static", "squarespace"}

\* C8: the set returned holds the seed host, and besides it only hosts of media
\* URLs of the seed page whose name contains one of the recognized words; it is
\* {seed host} when no other host was observed
C8_AllowedDomainsFiltered ==
    discovery.state = "returned" =>
        /\ allowedDomains = discovery.result
        /\ getDomain(discovery.url) \in discovery.result
        /\ \A domain \in discovery.result \ {getDomain(discovery.url)} :
              /\ domain \in ObservedMediaHosts
              /\ discovery.error = "none"
              /\ \E word \in CdnWords : Includes(domain, word)
        /\ ObservedMediaHosts \subseteq {getDomain(discovery.url)}
              => discovery.result = {getDomain(discovery.url)}

\* discovery returned for a seed page with media on a CDN host, on the host of
\* the seed and on a host that matches no word
C8_Witness ==
    /\ discovery.state = "returned"
    /\ discovery.error = "none"
    /\ {seedHost, cdnHost, adsHost} \subseteq ObservedMediaHosts
    /\ discovery.result = {seedHost, cdnHost}

\* C9: with the browser initialized, discovery does not raise, and it returns
\* {seed host} when the seed page did not load or its URLs could not be read
C9_DiscoveryFailureReturnsSeedHost ==
    /\ discovery.state = "raised" => discovery.error = "notInitialized"
    /\ (discovery.state = "returned" /\ discovery.error # "none")
          => discovery.result = {getDomain(discovery.url)}

(* ------------------------------------------------------------------ *)
(* Deduplication: what both modes read from a directory tree           *)
(* ------------------------------------------------------------------ *)
MaxDedupFiles == 3

\* the files a tree can hold, in the order fs.readdir and the walk list them
ScanOrder ==
    << MkPath(cdnHost, [name |-> "t", ext |-> "png"], 0),
       MkPath(seedHost, [name |-> "v", ext |-> "mp4"], 0),
       MkPath(seedHost, [name |-> "v", ext |-> "mp4"], 1),
       MkPath(seedHost, [name |-> "x", ext |-> "jpg"], 0),
       MkPath(seedHost, [name |-> "x", ext |-> "jpg"], 1),
       MkPath(seedHost, [name |-> "x", ext |-> "jpg"], 2),
       MkPath(seedHost, [name |-> "xy", ext |-> "jpg"], 0) >>

ScanPaths == {ScanOrder[k] : k \in DOMAIN ScanOrder}

\* the contents a media file of the tree can have
ScanContents == {"c1", "c2", "c3", "c4"}

\* String.length of the names of ScanOrder
StrLen == [t |-> 1, v |-> 1, x |-> 1, xy |-> 2, png |-> 3, mp4 |-> 3, jpg |-> 3]

\* filename.length of name.ext or name_n.ext
filenameLength(fp) == StrLen[fp.name] + (IF fp.n > 0 THEN 2 ELSE 0) + 1 + StrLen[fp.ext]

\* the walk: the files of the tree whose extension is in exts, in listing order
walk(fs, exts) ==
    LET listed(fp) == fp \in DOMAIN fs /\ fp.ext \in exts
    IN  SelectSeq(ScanOrder, listed)

\* dimensions ? width * height : 0
pixelsOf(dims) == IF dims = NoDims THEN 0 ELSE dims.width * dims.height

\* getVisualHash(filepath): null for a file that is no readable image
getVisualHash(fs, fp) ==
    IF fp.ext \in imageExtensions THEN ContentInfo[fs[fp]].visual ELSE NoVisual

\* the number of positions in which two perceptual hashes differ
hammingDistance(h1, h2) == Cardinality({k \in DOMAIN h1 : h1[k] # h2[k]})

VisualThreshold == 1

\* areVisuallySimular(hash1, hash2)
areVisuallySimular(h1, h2) == hammingDistance(h1, h2) <= VisualThreshold

\* the entry built for a file: ImageInfo in the pipeline, FileInfo in the scanner
FileInfoOf(fs, fp) ==
    [ path |-> fp, filename |-> filenameLength(fp), size |-> ContentInfo[fs[fp]].size,
      pixels |-> pixelsOf(getImageDimensions(fs, fp)),
      contentHash |-> getFileHash(fs, fp), visualHash |-> getVisualHash(fs, fp) ]

FileInfos(fs, exts) == [k \in DOMAIN walk(fs, exts) |-> FileInfoOf(fs, walk(fs, exts)[k])]

\* the sort is ascending: the smallest image comes first
betterQuality_ascending(infos, a, b) ==
    \/ infos[a].pixels < infos[b].pixels
    \/ infos[a].pixels = infos[b].pixels /\ infos[a].size < infos[b].size
    \/ infos[a].pixels = infos[b].pixels /\ infos[a].size = infos[b].size /\ a < b

\* a.pixels before b.pixels when greater, then the greater size; Array.sort is
\* stable, so of two equal entries the one listed first stays first
betterQuality(infos, a, b) ==
    \/ infos[a].pixels > infos[b].pixels
    \/ infos[a].pixels = infos[b].pixels /\ infos[a].size > infos[b].size
    \/ infos[a].pixels = infos[b].pixels /\ infos[a].size = infos[b].size /\ a < b

\* the sort is descending: the longest filename comes first
shorterName_descending(infos, a, b) ==
    \/ infos[a].filename > infos[b].filename
    \/ infos[a].filename = infos[b].filename /\ a < b

\* a.filename.length - b.filename.length, stable
shorterName(infos, a, b) ==
    \/ infos[a].filename < infos[b].filename
    \/ infos[a].filename = infos[b].filename /\ a < b

\* group[0] after the sort by quality
keepByQuality(infos, group) ==
    CHOOSE a \in group : \A b \in group \ {a} : betterQuality(infos, a, b)

\* group[0] after the sort by filename length
keepByName(infos, group) ==
    CHOOSE a \in group : \A b \in group \ {a} : shorterName(infos, a, b)

\* a group as reported: the file kept and the files removed or to remove
Group(infos, group, keep, reason) ==
    [ original |-> infos[keep].path, duplicates |-> {infos[b].path : b \in group \ {keep}},
      reason |-> reason ]

\* fs.unlink of every file of a set
UnlinkAll(fs, fps) == [q \in DOMAIN fs \ fps |-> fs[q]]

\* the files named as duplicates by a set of groups
Duplicates(groups) == UNION {g.duplicates : g \in groups}

(* ------------------------------------------------------------------ *)
(* Deduplication in the pipeline: VisualDeduplicator                   *)
(* ------------------------------------------------------------------ *)
\* the sets of entries that share a key, two entries or more
GroupsBy(infos, sameKey(_, _)) ==
    {g \in {{b \in DOMAIN infos : sameKey(infos[a], infos[b])} : a \in DOMAIN infos} :
        Cardinality(g) >= 2}

\* `${dir}/${info.baseName}${info.ext}`: the name without its _N suffix
sameBaseName(a, b) ==
    a.path.dir = b.path.dir /\ a.path.name = b.path.name /\ a.path.ext = b.path.ext

\* info.contentHash
sameContentHash(a, b) == a.contentHash = b.contentHash

\* the groups of removeFilenameDuplicates with the file each keeps
filenameGroups(infos) ==
    {Group(infos, g, keepByQuality(infos, g), "filename") : g \in GroupsBy(infos, sameBaseName)}

\* the groups of removeContentDuplicates and of findIdenticalFiles
contentGroups(infos) ==
    {Group(infos, g, keepByName(infos, g), "identical") : g \in GroupsBy(infos, sameContentHash)}

\* an entry joins a group when it is similar to any member of it, not to entry i
visualClusters_anyMember(infos, i, used) ==
    LET near(a, b) == areVisuallySimular(infos[a].visualHash, infos[b].visualHash)
        linked(a, b) == near(a, b) \/ \E c \in DOMAIN infos : near(a, c) /\ near(c, b)
    IN  {{b \in DOMAIN infos : linked(a, b)} : a \in DOMAIN infos}

\* the loop over i of removeVisualDuplicates: the group of entry i is entry i and
\* every later unused entry similar to entry i
RECURSIVE visualClusters(_, _, _)
visualClusters(infos, i, used) ==
    IF i > Len(infos) THEN {}
    ELSE IF i \in used THEN visualClusters(infos, i + 1, used)
    ELSE LET group == {i} \cup {j \in (i + 1)..Len(infos) :
                                  /\ j \notin used
                                  /\ areVisuallySimular(infos[i].visualHash, infos[j].visualHash)}
         IN  {group} \cup visualClusters(infos, i + 1, used \cup group)

\* the clusters of two files or more, with the file each keeps
visualGroups(infos) ==
    {Group(infos, g, keepByQuality(infos, g), "visual") :
        g \in {c \in visualClusters(infos, 1, {}) : Cardinality(c) >= 2}}

\* a phase has removed the duplicates of its groups
Removed(groups, next) ==
    /\ files' = UnlinkAll(files, Duplicates(groups))
    /\ dedup' = [dedup EXCEPT !.pc = next,
                              !.before = files,
                              !.report.groups = @ \cup groups,
                              !.report.found = @ + Cardinality(Duplicates(groups)),
                              !.deleted = @ + Cardinality(Duplicates(groups))]
    /\ UNCHANGED <<config, allowedDomains, downloadedUrls, contentHashes, tasks, files0, dirs>>
    /\ UNCHANGED <<crawlVars, session>>

\* deduplicate(outputDir, dryRun) up to removeFilenameDuplicates: 0 at once on a
\* dry run and with fewer than two images, else the ImageInfo of every image
deduplicate_call ==
    /\ dedup.mode = "pipeline"
    /\ dedup.pc = "ready"
    /\ dedup' = IF dedup.dryRun \/ Len(walk(files, imageExtensions)) < 2
                THEN [dedup EXCEPT !.pc = "returned"]
                ELSE [dedup EXCEPT !.pc = "filename",
                                   !.infos = FileInfos(files, imageExtensions)]
    /\ UNCHANGED <<dlVars, crawlVars, session>>

\* removeFilenameDuplicates(imageInfos)
removeFilenameDuplicates ==
    /\ dedup.pc = "filename"
    /\ Removed(filenameGroups(dedup.infos), "content")

\* the list is rebuilt from the files that remain; removeContentDuplicates
removeContentDuplicates ==
    /\ dedup.pc = "content"
    /\ LET remains(info) == info.path \in DOMAIN files
           remainingInfos == SelectSeq(dedup.infos, remains)
       IN  Removed(contentGroups(remainingInfos), "visual")

\* removeVisualDuplicates(stillRemaining), and deduplicate returns totalRemoved
removeVisualDuplicates ==
    /\ dedup.pc = "visual"
    /\ LET hashed(info) == info.visualHash # NoVisual
           imageInfos == SelectSeq(FileInfos(files, imageExtensions), hashed)
       IN  Removed(visualGroups(imageInfos), "returned")

\* after a dry run the same command is run again without --dry-run
dedup_again ==
    /\ dedup.pc = "returned"
    /\ dedup.dryRun
    /\ dedup' = [dedup EXCEPT !.pc = "ready", !.dryRun = FALSE, !.pass = @ + 1,
                              !.dry = dedup.report, !.report = NoReport]
    /\ UNCHANGED <<dlVars, crawlVars, session>>

\* the trees of at most MaxDedupFiles media files
DedupTrees ==
    UNION {[S -> ScanContents] :
              S \in {T \in SUBSET ScanPaths : Cardinality(T) <= MaxDedupFiles}}

\* a deduplication pass is about to run over a tree
DedupStart(mode) ==
    /\ files \in DedupTrees
    /\ files0 = files
    /\ dirs = {fp.dir : fp \in DOMAIN files}
    /\ config = BaseConfig
    /\ allowedDomains = {seedHost, cdnHost}
    /\ downloadedUrls = {}
    /\ contentHashes = {}
    /\ tasks = <<>>
    /\ browser = "null"
    /\ shuttingDown = FALSE
    /\ visitedUrls = {}
    /\ stack = <<>>
    /\ crawl = [seed |-> urlA, depth |-> 0, hrefs |-> {}, maxLinks |-> 0, navs |-> {}, downloader |-> FALSE, queued |-> <<>>,
                state |-> "idle", result |-> <<>>]
    /\ rendered = {}
    /\ web = <<>>
    /\ navCount = <<>>
    /\ pages = {}
    /\ discovery = NoDiscovery
    /\ session = NoSession
    /\ dedup \in [mode : {mode}, pc : {"ready"}, dryRun : BOOLEAN, pass : {1},
                  infos : {<<>>}, report : {NoReport}, deleted : {0}, dry : {NoReport},
                  before : {NoFiles}]

InitDedup == DedupStart("pipeline")

NextDedup ==
    \/ deduplicate_call
    \/ removeFilenameDuplicates
    \/ removeContentDuplicates
    \/ removeVisualDuplicates
    \/ dedup_again

SpecDedup == InitDedup /\ [][NextDedup]_vars

(* ------------------------------------------------------------------ *)
(* Deduplication of a directory: DuplicateScanner                      *)
(* ------------------------------------------------------------------ *)
mediaExtensions == MEDIA_EXTENSIONS.images \cup MEDIA_EXTENSIONS.videos

\* file.visualHash, the key of the Map visualGroups
sameVisualHash(a, b) == a.visualHash = b.visualHash

\* the groups of findVisuallySimilar with the file each keeps
similarGroups(infos) ==
    {Group(infos, g, keepByQuality(infos, g), "visual") : g \in GroupsBy(infos, sameVisualHash)}

\* freedBytes += dup.size over a set of files
RECURSIVE SumSizes(_, _)
SumSizes(fs, fps) ==
    IF fps = {} THEN 0
    ELSE LET fp == CHOOSE q \in fps : TRUE
         IN  ContentInfo[fs[fp]].size + SumSizes(fs, fps \ {fp})

\* scan(directory, options) up to findIdenticalFiles: the directory is there and
\* findMediaFiles lists its media files
scan_call ==
    /\ dedup.mode = "scan"
    /\ dedup.pc = "ready"
    /\ dedup' = [dedup EXCEPT !.pc = "identical", !.before = files,
                              !.infos = FileInfos(files, mediaExtensions)]
    /\ UNCHANGED <<dlVars, crawlVars, session>>

\* findIdenticalFiles(files)
findIdenticalFiles ==
    /\ dedup.pc = "identical"
    /\ dedup' = [dedup EXCEPT !.pc = "similar", !.report.groups = contentGroups(dedup.infos)]
    /\ UNCHANGED <<dlVars, crawlVars, session>>

\* mutant: no image is left out of the visual strategy
excluded_never(info, excludeHashes) == FALSE

\* f.contentHash && excludeHashes.has(f.contentHash)
excluded(info, excludeHashes) == info.contentHash \in excludeHashes

\* excludeHashes is filled from the identical groups; findVisuallySimilar
findVisuallySimilar ==
    /\ dedup.pc = "similar"
    /\ LET excludeHashes == {getFileHash(files, fp) : fp \in Duplicates(dedup.report.groups)}
           candidate(info) ==
               /\ info.path.ext \in imageExtensions
               /\ ~excluded(info, excludeHashes)
               /\ info.visualHash # NoVisual
           imageFiles == SelectSeq(dedup.infos, candidate)
       IN  dedup' = [dedup EXCEPT !.pc = "report",
                                  !.report.groups = @ \cup similarGroups(imageFiles)]
    /\ UNCHANGED <<dlVars, crawlVars, session>>

\* the loop over allGroups: every duplicate is counted, its size added to
\* freedBytes and, unless dryRun, the file unlinked; deletedCount counts the
\* unlinks that did not throw (failed: the files whose unlink throws); scan
\* returns {found, deleted, freedBytes}
scan_loop(failed) ==
    /\ dedup.pc = "report"
    /\ LET dups == Duplicates(dedup.report.groups)
       IN  /\ failed \subseteq dups
           /\ dedup' = [dedup EXCEPT !.pc = "returned",
                                     !.report.found = Cardinality(dups),
                                     !.report.freedBytes = SumSizes(files, dups),
                                     !.deleted = IF dedup.dryRun THEN 0
                                                 ELSE Cardinality(dups \ failed)]
           /\ files' = IF dedup.dryRun THEN files ELSE UnlinkAll(files, dups \ failed)
    /\ UNCHANGED <<config, allowedDomains, downloadedUrls, contentHashes, tasks, files0, dirs>>
    /\ UNCHANGED <<crawlVars, session>>

\* the loop when every fs.unlink resolves
scan_report ==
    /\ dedup.pc = "report"
    /\ scan_loop({})

\* the loop when fs.unlink throws for some of the duplicates
scan_unlinkFails ==
    /\ ~dedup.dryRun
    /\ \E failed \in SUBSET Duplicates(dedup.report.groups) \ {{}} : scan_loop(failed)

InitScan == DedupStart("scan")

NextScan ==
    \/ scan_call
    \/ findIdenticalFiles
    \/ findVisuallySimilar
    \/ scan_report
    \/ dedup_again

SpecScan == InitScan /\ [][NextScan]_vars

\* a scan over a directory some of whose files cannot be deleted
NextScanUnlink ==
    \/ NextScan
    \/ scan_unlinkFails

SpecScanUnlink == InitScan /\ [][NextScanUnlink]_vars

\* a pass of either mode
SpecDedupModes == (InitDedup \/ InitScan) /\ [][NextDedup \/ NextScan]_vars

(* ------------------------------------------------------------------ *)
(* Claims: deduplication                                               *)
(* ------------------------------------------------------------------ *)
\* C13 (as claimed): a dry-run pass deletes nothing, and the pass run next over
\* the same tree without dry-run reports the groups, the number of duplicates and
\* the bytes the dry run reported.
C13_DryRunReportsSame ==
    /\ dedup.dryRun => files = files0
    /\ (dedup.pc = "returned" /\ dedup.pass = 2) =>
          /\ dedup.report.groups = dedup.dry.groups
          /\ dedup.report.found = dedup.dry.found
          /\ dedup.report.freedBytes = dedup.dry.freedBytes

\* the images of the tree the pass started on
Images0 == {fp \in DOMAIN files0 : fp.ext \in imageExtensions}

Pixels0(fp) == pixelsOf(ContentInfo[files0[fp]].dims)

Size0(fp) == ContentInfo[files0[fp]].size

\* no image of a set has more pixels, or as many pixels and more bytes
BestQuality0(fp, fps) ==
    \A q \in fps :
        \/ Pixels0(fp) > Pixels0(q)
        \/ Pixels0(fp) = Pixels0(q) /\ Size0(fp) >= Size0(q)

Untouched(fp) == fp \in DOMAIN files /\ files[fp] = files0[fp]

\* the images with the directory, extension and stripped name of an image
NameGroup0(fp) ==
    {q \in Images0 : q.dir = fp.dir /\ q.ext = fp.ext /\ q.name = fp.name}

ContentPhaseDone ==
    \/ dedup.mode = "pipeline" /\ dedup.pc = "visual"
    \/ dedup.mode = "scan" /\ dedup.pc = "returned" /\ ~dedup.dryRun

\* the files of the tree the content strategy found with the content hash of fp,
\* among those with an extension of exts
HashGroup(fp, exts) ==
    {q \in DOMAIN dedup.before :
        q.ext \in exts /\ ContentInfo[dedup.before[q]].hash = ContentInfo[dedup.before[fp]].hash}

\* a file deleted with a unique content hash was deleted by the visual strategy
NotByContent(fp) ==
    fp \in DOMAIN files \/ \E g \in dedup.report.groups : g.reason = "visual" /\ fp \in g.duplicates

\* of every group of two or more files of exts with one content hash exactly one
\* is left, and no file of the group has a shorter filename; a file whose hash
\* is unique is not deleted by the strategy
ContentGroupsKeepShortest(exts) ==
    \A fp \in {q \in DOMAIN dedup.before : q.ext \in exts} :
        IF Cardinality(HashGroup(fp, exts)) >= 2
        THEN \E keep \in HashGroup(fp, exts) :
                /\ HashGroup(fp, exts) \cap DOMAIN files = {keep}
                /\ \A q \in HashGroup(fp, exts) : filenameLength(keep) <= filenameLength(q)
        ELSE NotByContent(fp)

VisualPhaseDone ==
    dedup.mode = "pipeline" /\ dedup.pc = "returned" /\ dedup.before # NoFiles

\* the images the visual strategy found, in scan order
VisualOrder == walk(dedup.before, imageExtensions)

\* the k-th and the l-th image found are within the threshold of each other
Near(k, l) ==
    hammingDistance(ContentInfo[dedup.before[VisualOrder[k]]].visual,
                    ContentInfo[dedup.before[VisualOrder[l]]].visual) <= VisualThreshold

\* the seeds of the greedy rule: the images not near any earlier seed
Seeds ==
    CHOOSE S \in SUBSET DOMAIN VisualOrder :
        \A j \in DOMAIN VisualOrder : j \in S <=> ~\E k \in S : k < j /\ Near(k, j)

\* the cluster of a seed: the seed and every later image near it that no
\* earlier seed has taken
ClusterOf(seed) ==
    {seed} \cup {j \in DOMAIN VisualOrder :
                    /\ j > seed
                    /\ Near(seed, j)
                    /\ ~\E k \in Seeds : k < seed /\ Near(k, j)}

\* the k-th image found is still there
Survives(k) == VisualOrder[k] \in DOMAIN files

\* the k-th image found has at least the quality of the l-th
AtLeastQuality(k, l) ==
    LET a == ContentInfo[dedup.before[VisualOrder[k]]]
        b == ContentInfo[dedup.before[VisualOrder[l]]]
    IN  \/ pixelsOf(a.dims) > pixelsOf(b.dims)
        \/ pixelsOf(a.dims) = pixelsOf(b.dims) /\ a.size >= b.size

\* C16: after the pipeline's visual strategy, of every cluster of the greedy rule
\* over the images in scan order (a seed and the later images within the threshold
\* of the seed that no earlier seed took) exactly one member is left, one of the
\* greatest pixel count and, among those, of the greatest size; every other file
\* is left alone.
C16_GreedyClustersKeepBest ==
    VisualPhaseDone =>
        /\ \A seed \in Seeds :
              \E keep \in ClusterOf(seed) :
                  /\ \A k \in ClusterOf(seed) : Survives(k) <=> k = keep
                  /\ \A k \in ClusterOf(seed) : AtLeastQuality(keep, k)
        /\ \A fp \in DOMAIN dedup.before : fp.ext \notin imageExtensions => fp \in DOMAIN files

\* a cluster of two lost its lesser member, and a third image, near the member
\* removed but not near the seed, stayed as a cluster of its own
C16_Witness ==
    /\ VisualPhaseDone
    /\ \E seed, other \in Seeds : \E j \in ClusterOf(seed) :
          /\ seed # other /\ j # seed
          /\ ClusterOf(seed) = {seed, j}
          /\ Near(j, other) /\ ~Near(seed, other)
          /\ Survives(seed) /\ ~Survives(j) /\ Survives(other)

\* the scanner has formed its groups
ScanGrouped == dedup.mode = "scan" /\ dedup.pc \in {"report", "returned"}

\* two images of the directory scanned, no file of which has the content of
\* another, whose perceptual hashes are within the threshold of each other and of
\* no other image
SimilarPair(fp, fq) ==
    LET images == {q \in DOMAIN files0 : q.ext \in imageExtensions}
        visual(q) == ContentInfo[files0[q]].visual
        near(a, b) == hammingDistance(visual(a), visual(b)) <= VisualThreshold
    IN  /\ fp \in images /\ fq \in images /\ fp # fq
        /\ near(fp, fq)
        /\ \A q \in images \ {fp, fq} : ~near(fp, q) /\ ~near(fq, q)
        /\ \A a, b \in DOMAIN files0 :
              a # b => ContentInfo[files0[a]].hash # ContentInfo[files0[b]].hash

\* C17: the scanner places two images whose perceptual hashes are within the
\* hamming threshold of each other, and of no other image, in one visual group and
\* reports the one of the lower pixel count as the duplicate.
C17_ScanGroupsSimilar ==
    ScanGrouped =>
        \A fp, fq \in DOMAIN files0 :
            /\ SimilarPair(fp, fq)
            /\ pixelsOf(ContentInfo[files0[fp]].dims) > pixelsOf(ContentInfo[files0[fq]].dims)
            => [original |-> fp, duplicates |-> {fq}, reason |-> "visual"] \in dedup.report.groups

(* ------------------------------------------------------------------ *)
(* The session: downloadAction                                         *)
(* ------------------------------------------------------------------ *)
\* a step of downloadAction that leaves the crawl engine's calls alone
SessionStep(pc) ==
    /\ session' = [session EXCEPT !.pc = pc]
    /\ UNCHANGED <<shuttingDown, visitedUrls, stack, rendered, web, navCount, pages, discovery>>
    /\ UNCHANGED <<dlVars, dedup>>

\* await crawler.init(): chromium.launch resolves and the browser is kept, or it
\* rejects and the catch clause is entered
session_init(ok) ==
    /\ session.pc = "init"
    /\ browser' = IF ok THEN "open" ELSE browser
    /\ SessionStep(IF ok THEN "discover" ELSE "catch")
    /\ UNCHANGED crawl

\* await crawler.discoverAllowedDomains(url): it returns, or its newPage() rejects;
\* then crawlPage(url, config.depth, ...) is about to be called
session_discover(ok) ==
    /\ session.pc = "discover"
    /\ crawl' = IF ok THEN [crawl EXCEPT !.state = "ready"] ELSE crawl
    /\ SessionStep(IF ok THEN "crawl" ELSE "catch")
    /\ UNCHANGED browser

\* crawlPage has returned mediaUrls; downloadAll(mediaUrls) is awaited
session_crawled ==
    /\ session.pc = "crawl"
    /\ crawl.state = "returned"
    /\ SessionStep("download")
    /\ UNCHANGED <<browser, crawl>>

\* downloadAll and waitForCompletion resolve, or a processDownload has thrown
session_download(ok) ==
    /\ session.pc = "download"
    /\ SessionStep(IF ok THEN "dedup" ELSE "catch")
    /\ UNCHANGED <<browser, crawl>>

\* deduplicate and countMediaFiles resolve and the try block ends, or one throws
session_dedup(ok) ==
    /\ session.pc = "dedup"
    /\ SessionStep(IF ok THEN "finally" ELSE "catch")
    /\ UNCHANGED <<browser, crawl>>

\* catch (error): logger.error, then process.exit(1) ends the process at once
session_catch ==
    /\ session.pc = "catch"
    /\ session' = [session EXCEPT !.pc = "ended", !.exit = "1"]
    /\ UNCHANGED <<dlVars, crawlVars, dedup>>

\* finally: crawler.close() is called, sets the flag and awaits browser.close()
session_finally ==
    /\ session.pc = "finally"
    /\ session' = [session EXCEPT !.pc = "closing", !.closes = @ + 1]
    /\ shuttingDown' = TRUE
    /\ browser' = IF browser = "open" THEN "closing" ELSE browser
    /\ UNCHANGED <<visitedUrls, stack, crawl, rendered, web, navCount, pages, discovery>>
    /\ UNCHANGED <<dlVars, dedup>>

\* browser.close() has settled, this.browser = null; downloadAction returns and
\* the process ends
session_closed ==
    /\ session.pc = "closing"
    /\ session' = [session EXCEPT !.pc = "ended", !.exit = "0"]
    /\ browser' = "null"
    /\ pages' = {}
    /\ UNCHANGED <<shuttingDown, visitedUrls, stack, crawl, rendered, web, navCount, discovery>>
    /\ UNCHANGED <<dlVars, dedup>>

\* new BrowserCrawler() in downloadAction, for a site of NumLoopPages pages
InitMain ==
    /\ browser = "null"
    /\ shuttingDown = FALSE
    /\ visitedUrls = {}
    /\ stack = <<>>
    /\ crawl \in [seed : {MkPage(seedHost, 0)}, depth : 0..MaxDepth, hrefs : {LoopHrefs},
                  maxLinks : {MaxLinks}, navs : {{"ok", "fail"}}, downloader : {FALSE},
                  queued : {<<>>}, state : {"idle"},
                  result : {<<>>}]
    /\ rendered = {}
    /\ web = <<>>
    /\ navCount = <<>>
    /\ pages = {}
    /\ discovery = NoDiscovery
    /\ dedup = NoDedup
    /\ session = [pc |-> "init", closes |-> 0, exit |-> "none"]
    /\ DownloadIdle

NextMain ==
    \/ \E ok \in BOOLEAN : session_init(ok)
    \/ \E ok \in BOOLEAN : session_discover(ok)
    \/ session.pc = "crawl" /\ CrawlStep
    \/ session_crawled
    \/ \E ok \in BOOLEAN : session_download(ok)
    \/ \E ok \in BOOLEAN : session_dedup(ok)
    \/ session_catch
    \/ session_finally
    \/ session_closed

SpecMain == InitMain /\ [][NextMain]_vars

(* ------------------------------------------------------------------ *)
(* Claims: the session                                                 *)
(* ------------------------------------------------------------------ *)
\* C20: when the process of a download session has ended, by the end of
\* downloadAction or by a fatal error in one of its phases, close() has been
\* called exactly once.
C20_ClosedExactlyOnce ==
    session.pc = "ended" => session.closes = 1

(* ------------------------------------------------------------------ *)
(* The download phase inside downloadAction                            *)
(* ------------------------------------------------------------------ *)
\* a filesystem call of the pipeline of URL i rejects (permission, disk full, I/O
\* error): fs.mkdir (line 82), the unlink of an empty file (line 132) and
\* getFileHash (line 142) are awaited outside any try and without a catch, so
\* processDownload rejects; the stat calls are inside a try and the other unlinks
\* have a .catch, so the pipeline goes on or returns with the file left in place
processDownload_fsError(i) ==
    /\ i \in DOMAIN tasks
    /\ tasks[i].pc \in {"mkdir", "resume", "unlinkFailed", "stat", "unlinkEmpty", "hash",
                        "unlinkDuplicate", "unlinkSmall"}
    /\ tasks' = [tasks EXCEPT ![i] =
                    CASE @.pc \in {"mkdir", "unlinkEmpty", "hash"} -> Finish(@, "threw")
                      [] @.pc = "resume" -> [@ EXCEPT !.pc = "unique"]
                      [] @.pc = "stat" -> Finish(@, "notfound")
                      [] @.pc = "unlinkFailed" -> Finish(@, "failed")
                      [] @.pc = "unlinkDuplicate" -> Finish(@, "duplicate")
                      [] @.pc = "unlinkSmall" -> Finish(@, "small")]
    /\ UNCHANGED <<config, allowedDomains, downloadedUrls, contentHashes, files, files0, dirs>>
    /\ UNCHANGED <<crawlVars, dedupVars>>

\* mutant: the promise of the batch settles with the first of its functions
allSettled_any == \E i \in DOMAIN tasks : tasks[i].pc = "done"

\* every promise of queue.add has settled
allSettled == \A i \in DOMAIN tasks : tasks[i].pc = "done"

\* a promise of queue.add is rejected
someRejected == \E i \in DOMAIN tasks : tasks[i].outcome = "threw"

\* downloadAction calls downloadAll(mediaUrls) with the URLs the crawl returned
session_downloadAll(urls) ==
    /\ session.pc = "download"
    /\ tasks = <<>>
    /\ downloadAll(urls)

\* await Promise.all(promises) resolves once every function has returned, then
\* queue.onIdle() and waitForCompletion(); the dedup phase is next
downloadAll_resolved ==
    /\ session.pc = "download"
    /\ tasks # <<>>
    /\ allSettled
    /\ ~someRejected
    /\ session' = [session EXCEPT !.pc = "dedup"]
    /\ UNCHANGED <<dlVars, crawlVars, dedup>>

\* await Promise.all(promises) rejects as soon as one processDownload has thrown,
\* while the others may still be running or queued; the catch clause is entered
downloadAll_rejected ==
    /\ session.pc = "download"
    /\ someRejected
    /\ session' = [session EXCEPT !.pc = "catch"]
    /\ UNCHANGED <<dlVars, crawlVars, dedup>>

\* a step of a pipeline: the queue runs whatever downloadAction awaits, until
\* the process exits
DownloadStep ==
    \/ \E i \in 1..MaxTasks : processDownload_begin(i)
    \/ \E i \in 1..MaxTasks : processDownload_mkdir(i)
    \/ \E i \in 1..MaxTasks : processDownload_resume(i)
    \/ \E i \in 1..MaxTasks : processDownload_unique(i)
    \/ \E i \in 1..MaxTasks, r \in FetchResults : downloadFile(i, r)
    \/ \E i \in 1..MaxTasks : processDownload_retry(i)
    \/ \E i \in 1..MaxTasks : processDownload_unlink(i)
    \/ \E i \in 1..MaxTasks : processDownload_stat(i)
    \/ \E i \in 1..MaxTasks : processDownload_hash(i)
    \/ \E i \in 1..MaxTasks : processDownload_dims(i)
    \/ \E i \in 1..MaxTasks : processDownload_delay(i)
    \/ \E i \in 1..MaxTasks : processDownload_fsError(i)

\* the crawl has returned and the browser is still open
InitPhases ==
    /\ config \in Configs
    /\ allowedDomains = {seedHost, cdnHost}
    /\ downloadedUrls = {}
    /\ contentHashes = {}
    /\ tasks = <<>>
    /\ files \in InitialFiles
    /\ files0 = files
    /\ dirs = {f.dir : f \in DOMAIN files}
    /\ browser = "open"
    /\ shuttingDown = FALSE
    /\ visitedUrls = {}
    /\ stack = <<>>
    /\ crawl = [seed |-> urlA, depth |-> 0, hrefs |-> {}, maxLinks |-> 0, navs |-> {}, downloader |-> FALSE, queued |-> <<>>,
                state |-> "returned", result |-> <<>>]
    /\ rendered = {}
    /\ web = <<>>
    /\ navCount = <<>>
    /\ pages = {}
    /\ discovery = NoDiscovery
    /\ dedup = NoDedup
    /\ session = [pc |-> "download", closes |-> 0, exit |-> "none"]

NextPhases ==
    \/ \E urls \in UrlSeqs : session_downloadAll(urls)
    \/ session.pc \notin {"catch", "ended"} /\ DownloadStep
    \/ downloadAll_resolved
    \/ downloadAll_rejected
    \/ \E ok \in BOOLEAN : session_dedup(ok)
    \/ session_catch
    \/ session_finally
    \/ session_closed

SpecPhases == InitPhases /\ [][NextPhases]_vars

(* ------------------------------------------------------------------ *)
(* Claims: the download phase of a session                             *)
(* ------------------------------------------------------------------ *)
\* C21: a session in which a filesystem call on one file has failed does not take
\* the fatal-error path: the catch clause is never entered and the process does
\* not exit with status 1 because of it, so the other URLs are processed and the
\* dedup phase is reached.
C21_FilesystemFailurePerFile ==
    someRejected => session.pc # "catch" /\ session.exit # "1"

(* ------------------------------------------------------------------ *)
(* The crawl with a download manager attached                          *)
(* ------------------------------------------------------------------ *)
\* crawlPage(url, depth, sourceDomain, state, config, downloader?) over a site of
\* NumLoopPages pages, with and without the sixth argument
InitStreaming ==
    /\ browser = "open"
    /\ shuttingDown = FALSE
    /\ visitedUrls = {}
    /\ stack = <<>>
    /\ crawl \in [seed : {MkPage(seedHost, 0)}, depth : 0..MaxDepth, hrefs : {LoopHrefs},
                  maxLinks : {MaxLinks}, navs : {{"ok", "fail"}}, downloader : BOOLEAN,
                  queued : {<<>>}, state : {"ready"}, result : {<<>>}]
    /\ rendered = {}
    /\ web = <<>>
    /\ navCount = <<>>
    /\ pages = {}
    /\ discovery = NoDiscovery
    /\ dedup = NoDedup
    /\ session = NoSession
    /\ DownloadIdle

SpecStreaming == InitStreaming /\ [][NextSession]_vars

\* the media URLs extractMediaUrls finds on a page
MediaOf(url) == Range(extractMediaUrls(PageMedia, url))

\* C22: with a download manager attached and no shutdown, the media URLs of a
\* rendered page have been handed to the download manager once the call is past
\* its media step, before its links are read or crawled; the links of a rendered
\* page crawled with depth > 0 are read; and the crawl returns an empty list.
C22_StreamingSubmitsBeforeLinks ==
    crawl.downloader /\ ~shuttingDown =>
        /\ \A k \in DOMAIN stack :
              stack[k].url \in rendered /\ stack[k].pc \in {"links", "loop", "await", "close"} =>
                  /\ MediaOf(stack[k].url) \subseteq Range(crawl.queued)
                  /\ stack[k].pc = "close" /\ stack[k].depth > 0 => stack[k].url \in DOMAIN web
        /\ crawl.state = "returned" =>
              /\ \A url \in rendered : MediaOf(url) \subseteq Range(crawl.queued)
              /\ crawl.result = <<>>

\* C25: while the session is in its dedup phase, where the deduplicator reads and
\* deletes files of the output tree, no download pipeline is queued or in
\* progress: every function added to the queue has returned.
C25_DedupAfterDownloads ==
    session.pc = "dedup" => \A i \in DOMAIN tasks : tasks[i].pc = "done"

\* the dedup phase was reached after two URLs were queued, the second waiting
\* for the only worker, and a file was kept
C25_Witness ==
    /\ session.pc = "dedup"
    /\ config.concurrency = 1
    /\ Len(tasks) = 2
    /\ \E i \in DOMAIN tasks : Succeeded(i) /\ Exists(files, tasks[i].filepath)
    /\ \A i \in DOMAIN tasks : tasks[i].attempts >= 1

(* ------------------------------------------------------------------ *)
(* The sets of CrawlState                                              *)
(* ------------------------------------------------------------------ *)
\* a crawl, or the downloads of a batch: either writes its sets of CrawlState
InitState == InitLoops \/ InitDownload

NextState ==
    \/ crawl.state # "idle" /\ NextSession
    \/ crawl.state = "idle" /\ NextDownload

SpecState == InitState /\ [][NextState]_vars

\* C26: every page for which page.goto has been called is in visitedUrls, and no
\* step removes an element from visitedUrls, downloadedUrls or contentHashes.
C26_SetsOnlyGrow ==
    [][/\ DOMAIN navCount' \subseteq visitedUrls'
       /\ visitedUrls \subseteq visitedUrls'
       /\ downloadedUrls \subseteq downloadedUrls'
       /\ contentHashes \subseteq contentHashes']_vars

\* a second page is being navigated, already in visitedUrls, below a first that
\* was navigated before
C26_Witness ==
    /\ Len(stack) = 2
    /\ Top.pc = "goto"
    /\ Top.url \in visitedUrls
    /\ stack[1].url \in DOMAIN navCount \cap visitedUrls
    /\ Cardinality(visitedUrls) >= 2

\* C27 (as claimed): when the crawl has returned, visitedUrls holds as many URLs
\* as there are pages for which a navigation was started.
C27_VisitedEqualsRendered ==
    crawl.state = "returned" => Cardinality(visitedUrls) = Cardinality(DOMAIN navCount)

\* the files of a group as reported
Members(g) == {g.original} \cup g.duplicates

\* C28 (as claimed, scanner): the image kept by a group of identical files is a
\* candidate of the visual strategy: an image that no identical group removes and
\* whose perceptual hash is that of the kept image is in one visual group with it.
C28_KeptCopyStaysCandidate ==
    ScanGrouped =>
        \A g \in dedup.report.groups : \A fp \in DOMAIN files0 :
            /\ g.reason = "identical"
            /\ g.original.ext \in imageExtensions /\ fp.ext \in imageExtensions
            /\ fp \notin Duplicates({h \in dedup.report.groups : h.reason = "identical"})
            /\ fp # g.original
            /\ ContentInfo[files0[fp]].visual = ContentInfo[files0[g.original]].visual
            => \E v \in dedup.report.groups :
                  v.reason = "visual" /\ {g.original, fp} \subseteq Members(v)

C30_DepthFirstInOrder ==
    [][/\ \A k \in DOMAIN stack' :
             stack'[k].pc = "links" =>
                 k \in DOMAIN stack /\ stack[k].url = stack'[k].url
                                   /\ stack[k].pc \in {"media", "links"}
       /\ \A k \in 1..(Len(stack') - 1) :
             /\ stack'[k].pc = "await"
             /\ stack'[k].i \in DOMAIN stack'[k].links
             /\ stack'[k + 1].url = stack'[k].links[stack'[k].i]
             /\ \A j \in 1..(stack'[k].i - 1) : stack'[k].links[j] \in visitedUrls'
       /\ Cardinality({k \in DOMAIN stack' : stack'[k].pc \in {"newPage", "goto"}}) <= 1]_vars

\* the second link of the seed is being navigated, after the first was rendered
\* and its call returned
C30_Witness ==
    /\ Len(stack) = 2
    /\ stack[1].pc = "await"
    /\ stack[1].i = 2
    /\ stack[1].links[1] \in rendered
    /\ stack[1].links[1] # stack[1].links[2]
    /\ Top.url = stack[1].links[2]
    /\ Top.pc = "goto"

(* ------------------------------------------------------------------ *)
(* Destination paths and the registered content hashes                 *)
(* ------------------------------------------------------------------ *)
\* a fetch has been issued for the destination of the pipeline
HasDestination(t) == t.attempts >= 1

\* C31 (as claimed): two pipelines in progress for distinct URLs never have the
\* same destination path, and two successful downloads of distinct URLs have left
\* two files.
C31_DistinctDestinations ==
    \A i, j \in DOMAIN tasks :
        /\ tasks[i].url # tasks[j].url
        /\ HasDestination(tasks[i]) /\ HasDestination(tasks[j])
        =>
        /\ i \in InProgress /\ j \in InProgress => tasks[i].filepath # tasks[j].filepath
        /\ Succeeded(i) /\ Succeeded(j) =>
               /\ tasks[i].filepath # tasks[j].filepath
               /\ Exists(files, tasks[i].filepath) /\ Exists(files, tasks[j].filepath)

\* C32 (as claimed): once every submission has settled, every digest in
\* contentHashes is the content hash of a file the phase has kept on disk, and
\* the set is empty when skipDuplicates is off.
C32_HashesOfKeptFiles ==
    Quiescent =>
        /\ \A h \in contentHashes : \E fp \in Kept : getFileHash(files, fp) = h
        /\ ~config.skipDuplicates => contentHashes = {}

(* ------------------------------------------------------------------ *)
(* The download manager under fair scheduling                          *)
(* ------------------------------------------------------------------ *)
\* a 301/302 whose Location is no absolute URL: `new URL(url)` throws in the
\* executor of the inner downloadFile, its promise rejects, `.then(resolve)` is
\* never run and the promise processDownload awaits stays pending
downloadFile_badRedirect(i) ==
    /\ i \in DOMAIN tasks
    /\ tasks[i].pc = "fetching"
    /\ tasks' = [tasks EXCEPT ![i].pc = "pending"]
    /\ UNCHANGED <<config, allowedDomains, downloadedUrls, contentHashes, files, files0, dirs>>
    /\ UNCHANGED <<crawlVars, dedupVars>>

\* the steps of the function the queue runs for the i-th URL
TaskStep(i) ==
    \/ processDownload_begin(i)
    \/ processDownload_mkdir(i)
    \/ processDownload_resume(i)
    \/ processDownload_unique(i)
    \/ \E r \in FetchResults : downloadFile(i, r)
    \/ downloadFile_badRedirect(i)
    \/ processDownload_retry(i)
    \/ processDownload_unlink(i)
    \/ processDownload_stat(i)
    \/ processDownload_hash(i)
    \/ processDownload_dims(i)
    \/ processDownload_delay(i)

InitFair ==
    /\ InitDownload
    /\ files = NoFiles

NextFair ==
    \/ \E urls \in UrlSeqs : downloadAll(urls)
    \/ \E i \in 1..MaxTasks : TaskStep(i)

\* the event loop runs every callback that is ready: no function of the queue
\* that can take a step waits for ever
FairDownload ==
    InitFair /\ [][NextFair]_vars /\ \A i \in 1..MaxTasks : WF_vars(TaskStep(i))

\* C33 (as claimed): under fair scheduling every URL added to the queue is
\* eventually done, whatever the server answers.
C33_DownloadsSettle ==
    \A i \in 1..MaxTasks :
        (i \in DOMAIN tasks) ~> (i \in DOMAIN tasks /\ tasks[i].pc = "done")

(* ------------------------------------------------------------------ *)
(* Claims: what a deduplication pass leaves and reports                *)
(* ------------------------------------------------------------------ *)
\* the image files of the tree as it is now
ImagesLeft == {fp \in DOMAIN files : fp.ext \in imageExtensions}

\* C34 (as claimed): when the pipeline's pass has run its three strategies, no two
\* image files left in the tree have perceptual hashes within the threshold of
\* each other.
C34_NoSimilarImagesLeft ==
    VisualPhaseDone =>
        \A fp, fq \in ImagesLeft :
            fp # fq => ~areVisuallySimular(getVisualHash(files, fp), getVisualHash(files, fq))

\* C35: the groups of a scan are pairwise disjoint, the file a group keeps is a
\* duplicate of no group, and after the deletions the file kept by every group is
\* on disk.
C35_ScanGroupsDisjoint ==
    ScanGrouped =>
        /\ \A g, h \in dedup.report.groups : g # h => Members(g) \cap Members(h) = {}
        /\ \A g \in dedup.report.groups :
              /\ Cardinality(Members(g)) >= 2
              /\ g.original \notin Duplicates(dedup.report.groups)
              /\ (dedup.pc = "returned" /\ ~dedup.dryRun) => g.original \in DOMAIN files

\* two identical images were grouped and the longer-named one deleted, next to a
\* third image with the perceptual hash of the two, which is in no group
C35_Witness ==
    /\ dedup.mode = "scan" /\ dedup.pc = "returned" /\ ~dedup.dryRun
    /\ \E g \in dedup.report.groups : \E fp \in DOMAIN files0 \ Members(g) :
          /\ dedup.report.groups = {g}
          /\ g.reason = "identical"
          /\ g.original.ext \in imageExtensions
          /\ fp.ext \in imageExtensions
          /\ ContentInfo[files0[fp]].visual = ContentInfo[files0[g.original]].visual
          /\ g.original \in DOMAIN files /\ fp \in DOMAIN files
          /\ g.duplicates # {} /\ g.duplicates \cap DOMAIN files = {}

\* the files of the tree the scan started on that are no longer there
Deleted == DOMAIN files0 \ DOMAIN files

\* C36 (as claimed): a scan that deletes returns the number of files it removed
\* from disk, at most the number it found, and the sum of their sizes, also when
\* some deletions fail.
C36_ReportsWhatWasFreed ==
    (dedup.mode = "scan" /\ dedup.pc = "returned" /\ ~dedup.dryRun) =>
        /\ dedup.deleted = Cardinality(Deleted)
        /\ dedup.deleted <= dedup.report.found
        /\ dedup.report.freedBytes = SumSizes(files0, Deleted)

(* ------------------------------------------------------------------ *)
(* Claims: the pages a crawl holds open                                *)
(* ------------------------------------------------------------------ *)
\* C37: the pages open during a crawl of depth d are never more than d + 1, every
\* one is the page of a call in progress that has passed browser.newPage(), and
\* none is open once the outermost call has returned, however the calls ended.
C37_PagesBoundedAndClosed ==
    /\ Cardinality(pages) <= crawl.depth + 1
    /\ \A k \in pages : k \in DOMAIN stack /\ stack[k].pc # "newPage"
    /\ crawl.state = "returned" => pages = {}

\* a crawl of the greatest depth holds a page open for each call of a chain of
\* depth + 1 calls, after a call whose navigation failed has returned
C37_Witness ==
    /\ crawl.depth = MaxDepth
    /\ Cardinality(pages) = MaxDepth + 1
    /\ \E u \in DOMAIN navCount : u \notin rendered /\ \A k \in DOMAIN stack : stack[k].url # u

====
